---- MODULE Spec2Model ----
(***************************************************************************)
(* A model of the kiwi-rs runtime layer (src/src/runtime.rs): the six      *)
(* bounded recency caches of one Kiwi instance, the configuration mutators *)
(* that invalidate them, and the chunk glue engine.  The native analyzer   *)
(* behind the FFI boundary is an opaque collaborator: its results are      *)
(* modelled as the tuple of everything they may depend on.                 *)
(***************************************************************************)
EXTENDS Integers, Sequences, FiniteSets, TLC

(***************************************************************************)
(* Bounds of the model.                                                    *)
(***************************************************************************)
MaxOps == 2          \* calls made on the instance in one behaviour
MaxCacheOps == 3     \* calls in one behaviour of the inference operations alone
MaxRules == 1        \* regex rules held by the instance at one time
MaxChunks == 3       \* chunks in one glue call
MaxBatch == 2        \* texts in one batch call

(***************************************************************************)
(* Program constants.                                                      *)
(***************************************************************************)
JOIN_CACHE_CAPACITY == 16
TOKENIZE_CACHE_CAPACITY == 256
ANALYZE_CACHE_CAPACITY == 128
SPLIT_CACHE_CAPACITY == 64
GLUE_CACHE_CAPACITY == 64
GLUE_PAIR_CACHE_CAPACITY == 256

(***************************************************************************)
(* Option<T> and Result<T>.                                                *)
(***************************************************************************)
None == [some |-> FALSE]
Some(v) == [some |-> TRUE, value |-> v]
Ok(v) == [ok |-> TRUE, value |-> v]
Err(kind, what) == [ok |-> FALSE, kind |-> kind, what |-> what]

\* let name = value; the rest of the body, In, is evaluated with the value bound.
Let(value, In(_)) == In(value)

\* Let at a statement boundary: the value is computed before the body starts.
Done(value, In(_)) == IF value = value THEN In(value) ELSE In(value)

(***************************************************************************)
(* Strings.  A &str is the sequence of its Unicode scalar values; as_bytes *)
(* is its UTF-8 encoding.                                                  *)
(***************************************************************************)
RECURSIVE Flatten(_)
Flatten(ss) == IF ss = <<>> THEN <<>> ELSE Head(ss) \o Flatten(Tail(ss))

Reverse(s) == [i \in 1..Len(s) |-> s[Len(s) + 1 - i]]

Take(s, n) == SubSeq(s, 1, IF Len(s) < n THEN Len(s) ELSE n)

encode_utf8(ch) ==
    IF ch < 128 THEN <<ch>>
    ELSE IF ch < 2048 THEN <<192 + (ch \div 64), 128 + (ch % 64)>>
    ELSE IF ch < 65536
         THEN <<224 + (ch \div 4096), 128 + ((ch \div 64) % 64), 128 + (ch % 64)>>
         ELSE <<240 + (ch \div 262144), 128 + ((ch \div 4096) % 64),
                128 + ((ch \div 64) % 64), 128 + (ch % 64)>>

as_bytes(text) == Flatten([i \in 1..Len(text) |-> encode_utf8(text[i])])

is_whitespace(ch) ==
    \/ ch \in 9..13
    \/ ch \in {32, 133, 160, 5760, 8232, 8233, 8239, 8287, 12288}
    \/ ch \in 8192..8202

is_ascii_alphanumeric(ch) == ch \in 48..57 \/ ch \in 65..90 \/ ch \in 97..122

RECURSIVE trim_start(_)
trim_start(text) ==
    IF text # <<>> /\ is_whitespace(Head(text)) THEN trim_start(Tail(text)) ELSE text

\* A faulty trim that keeps the outer whitespace.
keep_whitespace(text) == text

trim(text) == Reverse(trim_start(Reverse(trim_start(text))))

ends_with_ascii_word(value) ==
    LET idx == {i \in 1..Len(value) : ~is_whitespace(value[i])}
    IN IF idx = {} THEN FALSE
       ELSE is_ascii_alphanumeric(value[CHOOSE i \in idx : \A j \in idx : j <= i])

(***************************************************************************)
(* TextFingerprint.  A u64 is kept as its eight little-endian bytes.       *)
(***************************************************************************)
pack_edge(bytes) == [index \in 1..8 |-> IF index <= Len(bytes) THEN bytes[index] ELSE 0]

TextFingerprint_of(text) ==
    LET bytes == as_bytes(text)
    IN [len |-> Len(bytes),
        head |-> pack_edge(Take(bytes, 8)),
        tail |-> pack_edge(Take(Reverse(bytes), 8))]

(***************************************************************************)
(* u64 arithmetic on eight little-endian bytes, for glue_fingerprint.      *)
(***************************************************************************)
u64(n) == <<n % 256, (n \div 256) % 256, (n \div 65536) % 256, (n \div 16777216) % 256,
           0, 0, 0, 0>>

\* One bit of a ^ b, at the bit of weight w.
xor_bit(a, b, w) == IF (a \div w) % 2 = (b \div w) % 2 THEN 0 ELSE w

xor_u8(a, b) ==
    IF b = 0 THEN a
    ELSE IF a = 0 THEN b
    ELSE
    xor_bit(a, b, 1) + xor_bit(a, b, 2) + xor_bit(a, b, 4) + xor_bit(a, b, 8)
    + xor_bit(a, b, 16) + xor_bit(a, b, 32) + xor_bit(a, b, 64) + xor_bit(a, b, 128)

xor_u64(a, b) ==
    <<xor_u8(a[1], b[1]), xor_u8(a[2], b[2]), xor_u8(a[3], b[3]), xor_u8(a[4], b[4]),
      xor_u8(a[5], b[5]), xor_u8(a[6], b[6]), xor_u8(a[7], b[7]), xor_u8(a[8], b[8])>>

\* u64::wrapping_mul: schoolbook product of the limbs, the carry out of limb 8 dropped.
wrapping_mul(a, b) ==
    LET s1 == a[1] * b[1]
        s2 == s1 \div 256 + a[1] * b[2] + a[2] * b[1]
        s3 == s2 \div 256 + a[1] * b[3] + a[2] * b[2] + a[3] * b[1]
        s4 == s3 \div 256 + a[1] * b[4] + a[2] * b[3] + a[3] * b[2] + a[4] * b[1]
        s5 == s4 \div 256 + a[1] * b[5] + a[2] * b[4] + a[3] * b[3] + a[4] * b[2]
              + a[5] * b[1]
        s6 == s5 \div 256 + a[1] * b[6] + a[2] * b[5] + a[3] * b[4] + a[4] * b[3]
              + a[5] * b[2] + a[6] * b[1]
        s7 == s6 \div 256 + a[1] * b[7] + a[2] * b[6] + a[3] * b[5] + a[4] * b[4]
              + a[5] * b[3] + a[6] * b[2] + a[7] * b[1]
        s8 == s7 \div 256 + a[1] * b[8] + a[2] * b[7] + a[3] * b[6] + a[4] * b[5]
              + a[5] * b[4] + a[6] * b[3] + a[7] * b[2] + a[8] * b[1]
    IN <<s1 % 256, s2 % 256, s3 % 256, s4 % 256, s5 % 256, s6 % 256, s7 % 256, s8 % 256>>

FNV_OFFSET == <<37, 35, 34, 132, 228, 156, 242, 203>>
FNV_PRIME == <<179, 1, 0, 0, 0, 1, 0, 0>>

mix_u64(state, value) ==
    IF state = u64(0) THEN wrapping_mul(xor_u64(FNV_OFFSET, value), FNV_PRIME)
    ELSE wrapping_mul(xor_u64(state, value), FNV_PRIME)

RECURSIVE mix_chunks(_, _)
mix_chunks(state, chunks) ==
    IF chunks = <<>> THEN state
    ELSE LET fingerprint == TextFingerprint_of(Head(chunks))
         IN mix_chunks(mix_u64(mix_u64(mix_u64(state, u64(fingerprint.len)),
                                       fingerprint.head),
                               fingerprint.tail),
                       Tail(chunks))

RECURSIVE mix_flags(_, _)
mix_flags(state, flags) ==
    IF flags = <<>> THEN state
    ELSE mix_flags(mix_u64(state, u64(IF Head(flags) THEN 1 ELSE 0)), Tail(flags))

glue_fingerprint(chunks, insert_new_lines) ==
    LET mixed == mix_chunks(mix_u64(u64(0), u64(Len(chunks))), chunks)
    IN IF insert_new_lines.some
       THEN mix_flags(mix_u64(mix_u64(mixed, u64(1)), u64(Len(insert_new_lines.value))),
                      insert_new_lines.value)
       ELSE mix_u64(mixed, u64(0))

(***************************************************************************)
(* VecDeque: index 1 is the front.                                         *)
(***************************************************************************)
remove(deque, index) == SubSeq(deque, 1, index - 1) \o SubSeq(deque, index + 1, Len(deque))
push_front(deque, entry) == <<entry>> \o deque
push_back(deque, entry) == Append(deque, entry)
pop_back(deque) == SubSeq(deque, 1, Len(deque) - 1)
pop_front(deque) == SubSeq(deque, 2, Len(deque))

\* Iterator::position: the first index whose entry satisfies Matches, 0 when none.
position(deque, Matches(_)) ==
    Let({i \in 1..Len(deque) : Matches(deque[i])}, LAMBDA hits :
        IF hits = {} THEN 0 ELSE CHOOSE i \in hits : \A j \in hits : i <= j)

(***************************************************************************)
(* Cache keys and entries.                                                 *)
(***************************************************************************)
TokenizeCacheKey_from_options(options) ==
    [match_options |-> options.match_options,
     open_ending |-> options.open_ending,
     allowed_dialects |-> options.allowed_dialects,
     dialect_cost_bits |-> options.dialect_cost]

AnalyzeCacheKey_from_options(options) ==
    [top_n |-> options.top_n,
     match_options |-> options.match_options,
     open_ending |-> options.open_ending,
     allowed_dialects |-> options.allowed_dialects,
     dialect_cost_bits |-> options.dialect_cost]

\* A faulty matches that trusts the fingerprint and skips the comparison of the texts.
fingerprint_only_matches(entry, text, key, fingerprint) ==
    entry.key = key /\ entry.fingerprint = fingerprint

TokenizeCacheEntry_matches(entry, text, key, fingerprint) ==
    entry.key = key /\ entry.fingerprint = fingerprint /\ entry.text = text

AnalyzeCacheEntry_matches(entry, text, key, fingerprint) ==
    entry.key = key /\ entry.fingerprint = fingerprint /\ entry.text = text

SplitCacheEntry_matches(entry, text, match_options, fingerprint) ==
    entry.match_options = match_options /\ entry.fingerprint = fingerprint /\ entry.text = text

GlueCacheEntry_matches(entry, chunks, insert_new_lines, fingerprint) ==
    IF entry.fingerprint # fingerprint \/ Len(entry.chunks) # Len(chunks) THEN FALSE
    ELSE IF ~(\A i \in 1..Len(chunks) : entry.chunks[i] = chunks[i]) THEN FALSE
    ELSE IF ~entry.insert_new_lines.some /\ ~insert_new_lines.some THEN TRUE
    ELSE IF entry.insert_new_lines.some /\ insert_new_lines.some
         THEN entry.insert_new_lines.value = insert_new_lines.value
         ELSE FALSE

GluePairScoreCacheEntry_matches(entry, left, right) ==
    entry.left = left /\ entry.right = right

JoinCacheEntry_matches(entry, morphs, lm_search) ==
    IF entry.lm_search # lm_search \/ Len(entry.morphs) # Len(morphs) THEN FALSE
    ELSE \A i \in 1..Len(morphs) : entry.morphs[i] = morphs[i]

(***************************************************************************)
(* Cache lookups and inserts.  k is the Kiwi struct; a lookup returns the  *)
(* updated struct with the cached value, an insert the updated struct.     *)
(***************************************************************************)
\* A faulty dedupe that keeps the entry already stored for the key.
keep_duplicate(deque, index) == deque

\* if let Some(index) = position { cache.remove(index) }
dedupe(deque, index) == IF index # 0 THEN remove(deque, index) ELSE deque

\* A faulty make_room that never drops an entry.
never_make_room(deque, capacity) == deque

\* if cache.len() >= CAPACITY { cache.pop_back() }
make_room(deque, capacity) == IF Len(deque) >= capacity THEN pop_back(deque) ELSE deque

\* cache.remove(index) then cache.push_front(entry)
move_to_front(deque, index) == push_front(remove(deque, index), deque[index])

lookup_tokenize_cache(k, text, key) ==
    Let(TextFingerprint_of(text), LAMBDA fingerprint :
    Let(position(k.tokenize_cache,
                 LAMBDA entry : TokenizeCacheEntry_matches(entry, text, key, fingerprint)),
        LAMBDA index :
        IF index = 0 THEN [kiwi |-> k, ret |-> None]
        ELSE [kiwi |-> [k EXCEPT !.tokenize_cache = move_to_front(@, index)],
              ret |-> Some(k.tokenize_cache[index].tokens)]))

insert_tokenize_cache(k, text, key, tokens) ==
    Let(TextFingerprint_of(text), LAMBDA fingerprint :
    Let(position(k.tokenize_cache,
                 LAMBDA entry : TokenizeCacheEntry_matches(entry, text, key, fingerprint)),
        LAMBDA index :
        [k EXCEPT !.tokenize_cache =
            push_front(make_room(dedupe(@, index), TOKENIZE_CACHE_CAPACITY),
                       [key |-> key, fingerprint |-> fingerprint,
                             text |-> text, tokens |-> tokens])]))

lookup_analyze_cache(k, text, key) ==
    Let(TextFingerprint_of(text), LAMBDA fingerprint :
    Let(position(k.analyze_cache,
                 LAMBDA entry : AnalyzeCacheEntry_matches(entry, text, key, fingerprint)),
        LAMBDA index :
        IF index = 0 THEN [kiwi |-> k, ret |-> None]
        ELSE [kiwi |-> [k EXCEPT !.analyze_cache = move_to_front(@, index)],
              ret |-> Some(k.analyze_cache[index].candidates)]))

insert_analyze_cache(k, text, key, candidates) ==
    Let(TextFingerprint_of(text), LAMBDA fingerprint :
    Let(position(k.analyze_cache,
                 LAMBDA entry : AnalyzeCacheEntry_matches(entry, text, key, fingerprint)),
        LAMBDA index :
        [k EXCEPT !.analyze_cache =
            push_front(make_room(dedupe(@, index), ANALYZE_CACHE_CAPACITY),
                       [key |-> key, fingerprint |-> fingerprint,
                             text |-> text, candidates |-> candidates])]))

lookup_split_cache(k, text, match_options) ==
    Let(TextFingerprint_of(text), LAMBDA fingerprint :
    Let(position(k.split_cache,
                 LAMBDA entry : SplitCacheEntry_matches(entry, text, match_options, fingerprint)),
        LAMBDA index :
        IF index = 0 THEN [kiwi |-> k, ret |-> None]
        ELSE [kiwi |-> [k EXCEPT !.split_cache = move_to_front(@, index)],
              ret |-> Some(k.split_cache[index].boundaries)]))

insert_split_cache(k, text, match_options, boundaries) ==
    Let(TextFingerprint_of(text), LAMBDA fingerprint :
    Let(position(k.split_cache,
                 LAMBDA entry : SplitCacheEntry_matches(entry, text, match_options, fingerprint)),
        LAMBDA index :
        [k EXCEPT !.split_cache =
            push_front(make_room(dedupe(@, index), SPLIT_CACHE_CAPACITY),
                       [match_options |-> match_options, fingerprint |-> fingerprint,
                             text |-> text, boundaries |-> boundaries])]))

\* A faulty lookup that never finds the whole sequence.
skip_glue_cache(k, chunks, insert_new_lines) == [kiwi |-> k, ret |-> None]

lookup_glue_cache(k, chunks, insert_new_lines) ==
    Let(glue_fingerprint(chunks, insert_new_lines), LAMBDA fingerprint :
    Let(position(k.glue_cache,
                 LAMBDA entry : GlueCacheEntry_matches(entry, chunks, insert_new_lines, fingerprint)),
        LAMBDA index :
        IF index = 0 THEN [kiwi |-> k, ret |-> None]
        ELSE [kiwi |-> [k EXCEPT !.glue_cache = move_to_front(@, index)],
              ret |-> Some(<<k.glue_cache[index].glued_text,
                             k.glue_cache[index].space_insertions>>)]))

insert_glue_cache(k, chunks, insert_new_lines, glued_text, space_insertions) ==
    Let(glue_fingerprint(chunks, insert_new_lines), LAMBDA fingerprint :
    Let(position(k.glue_cache,
                 LAMBDA entry : GlueCacheEntry_matches(entry, chunks, insert_new_lines, fingerprint)),
        LAMBDA index :
        [k EXCEPT !.glue_cache =
            push_front(make_room(dedupe(@, index), GLUE_CACHE_CAPACITY),
                       [fingerprint |-> fingerprint, chunks |-> chunks,
                             insert_new_lines |-> insert_new_lines,
                             glued_text |-> glued_text,
                             space_insertions |-> space_insertions])]))

lookup_glue_pair_cache(k, left, right) ==
    Let(position(k.glue_pair_cache,
                 LAMBDA entry : GluePairScoreCacheEntry_matches(entry, left, right)),
        LAMBDA index :
        IF index = 0 THEN [kiwi |-> k, ret |-> None]
        ELSE [kiwi |-> [k EXCEPT !.glue_pair_cache = move_to_front(@, index)],
              ret |-> Some(k.glue_pair_cache[index].insert_space)])

insert_glue_pair_cache(k, left, right, insert_space) ==
    Let(position(k.glue_pair_cache,
                 LAMBDA entry : GluePairScoreCacheEntry_matches(entry, left, right)),
        LAMBDA index :
        [k EXCEPT !.glue_pair_cache =
            push_front(make_room(dedupe(@, index), GLUE_PAIR_CACHE_CAPACITY),
                       [left |-> left, right |-> right, insert_space |-> insert_space])])

\* A faulty clear that forgets the glue-pair cache.
clear_all_but_glue_pair(k) ==
    [k EXCEPT !.tokenize_cache = <<>>,
              !.analyze_cache = <<>>,
              !.split_cache = <<>>,
              !.glue_cache = <<>>]

\* A faulty clear that empties the join cache as well.
clear_every_cache(k) ==
    [k EXCEPT !.join_cache = <<>>,
              !.tokenize_cache = <<>>,
              !.analyze_cache = <<>>,
              !.split_cache = <<>>,
              !.glue_cache = <<>>,
              !.glue_pair_cache = <<>>]

clear_inference_caches(k) ==
    [k EXCEPT !.tokenize_cache = <<>>,
              !.analyze_cache = <<>>,
              !.split_cache = <<>>,
              !.glue_cache = <<>>,
              !.glue_pair_cache = <<>>]

(***************************************************************************)
(* State.                                                                  *)
(*   kiwi    the Kiwi struct: default options, regex rules, the six caches  *)
(*   native  the state of the native analyzer behind the handle             *)
(*   api     the optional entry points resolved in the loaded library       *)
(*   last    the last call made on the instance and what it returned        *)
(*   ops     the number of calls the behaviour may still make               *)
(***************************************************************************)
VARIABLES kiwi, native, api, last, ops

vars == <<kiwi, native, api, last, ops>>

(***************************************************************************)
(* f32 values: NaN, negative infinity or a finite number.                  *)
(***************************************************************************)
NaN == [kind |-> "nan", v |-> 0]
NEG_INFINITY == [kind |-> "neginf", v |-> 0]
Finite(v) == [kind |-> "num", v |-> v]

\* a >= b on f32: false when either side is NaN.
f32_ge(a, b) ==
    /\ a.kind # "nan"
    /\ b.kind # "nan"
    /\ \/ b.kind = "neginf"
       \/ a.kind = "num" /\ b.kind = "num" /\ a.v >= b.v

(***************************************************************************)
(* AnalyzeOptions (src/src/types.rs).  dialect_cost is kept as the bit     *)
(* pattern of the f32, so to_bits() is the value itself.                   *)
(***************************************************************************)
KIWI_MATCH_ALL_WITH_NORMALIZING == 8454175
KIWI_MATCH_ALL == 8388639
KIWI_DIALECT_STANDARD == 0
DIALECT_COST_3_0 == 1077936128

AnalyzeOptions_default ==
    [top_n |-> 1,
     match_options |-> KIWI_MATCH_ALL_WITH_NORMALIZING,
     open_ending |-> FALSE,
     allowed_dialects |-> KIWI_DIALECT_STANDARD,
     dialect_cost |-> DIALECT_COST_3_0]

with_top_n(options, top_n) == [options EXCEPT !.top_n = top_n]
with_match_options(options, match_options) == [options EXCEPT !.match_options = match_options]

C_INT_MAX == 2147483647

\* A faulty validation that accepts every top_n.
unvalidated_top_n(options) == Ok(options.top_n)

validated_top_n(options) ==
    IF options.top_n = 0 THEN Err("InvalidArgument", "AnalyzeOptions.top_n must be >= 1")
    ELSE IF options.top_n > C_INT_MAX
         THEN Err("InvalidArgument", "AnalyzeOptions.top_n must be <= c_int::MAX")
         ELSE Ok(options.top_n)

require_optional_api(name) ==
    IF name \in api THEN Ok(name) ELSE Err("Api", name)

\* CString::new: a string with an interior NUL is rejected.
CString_new(text) ==
    IF \E i \in 1..Len(text) : text[i] = 0 THEN Err("NulByte", "text") ELSE Ok(text)

(***************************************************************************)
(* The native analyzer.  A result of kiwi_analyze is the tuple of all the   *)
(* call's arguments and the engine state it ran under; parsing it gives     *)
(* the candidates or the tokens of the first candidate.                     *)
(***************************************************************************)
kiwi_analyze(text, top_n, analyze_option, pretokenized) ==
    [text |-> text, top_n |-> top_n, option |-> analyze_option,
     pretokenized |-> pretokenized, engine |-> native]

to_vec(result) == [candidates_of |-> result]
first_tokens(result) == [tokens_of |-> result]

RECURSIVE byte_sum(_)
byte_sum(bytes) == IF bytes = <<>> THEN 0 ELSE Head(bytes) + byte_sum(Tail(bytes))

\* kiwi_res_prob(result, 0): some fixed function of the text and the engine state.
kiwi_res_prob(result) ==
    LET weight == 1 + 2 * result.engine.config.space_tolerance
        bias == (IF result.engine.config.integrate_allomorph THEN 1 ELSE 0)
                + result.engine.option + 2 * result.engine.option_f
        h == (byte_sum(as_bytes(result.text)) * weight + bias) % 5
    IN IF h = 0 THEN NaN ELSE Finite(0 - h)

kiwi_split_into_sents(text, match_options) ==
    [text |-> text, match_options |-> match_options, engine |-> native]

(***************************************************************************)
(* Regex rules (add_re_word).  A pattern is a literal string; the pattern   *)
(* "(" does not compile.                                                    *)
(***************************************************************************)
Regex_new(pattern) ==
    IF pattern = <<40>> THEN Err("InvalidArgument", "invalid regex pattern for add_re_word")
    ELSE Ok([literal |-> pattern])

byte_offset(text, chars) == Len(as_bytes(SubSeq(text, 1, chars)))

RECURSIVE find_iter(_, _, _)
find_iter(regex, text, from) ==
    LET n == Len(regex.literal)
    IN IF n = 0 \/ from + n - 1 > Len(text) THEN <<>>
       ELSE IF SubSeq(text, from, from + n - 1) = regex.literal
            THEN <<[start |-> byte_offset(text, from - 1),
                    end |-> byte_offset(text, from - 1 + n),
                    as_str |-> regex.literal]>>
                 \o find_iter(regex, text, from + n)
            ELSE find_iter(regex, text, from + 1)

byte_to_char_index(text, byte_index) ==
    IF byte_index >= Len(as_bytes(text)) THEN Len(text)
    ELSE LET boundaries == {c \in 0..Len(text) : byte_offset(text, c) <= byte_index}
         IN CHOOSE c \in boundaries : \A d \in boundaries : d <= c

ranges_overlap(a_begin, a_end, b_begin, b_end) == a_begin < b_end /\ b_begin < a_end

RECURSIVE rule_matches(_, _)
rule_matches(rules, text) ==
    IF rules = <<>> THEN <<>>
    ELSE LET found == find_iter(Head(rules).pattern, text, 1)
         IN [i \in 1..Len(found) |-> [mat |-> found[i], tag |-> Head(rules).tag]]
            \o rule_matches(Tail(rules), text)

RECURSIVE accept_spans(_, _, _)
accept_spans(matches, text, spans) ==
    IF matches = <<>> THEN spans
    ELSE LET mat == Head(matches).mat
             begin == byte_to_char_index(text, mat.start)
             end == byte_to_char_index(text, mat.end)
             skip == \/ mat.start = mat.end
                     \/ begin >= end
                     \/ \E i \in 1..Len(spans) :
                           ranges_overlap(begin, end, spans[i].begin, spans[i].end)
         IN accept_spans(Tail(matches), text,
                         IF skip THEN spans
                         ELSE Append(spans, [begin |-> begin, end |-> end,
                                             form |-> mat.as_str, tag |-> Head(matches).tag]))


new_pretokenized(k) ==
    Let(require_optional_api("kiwi_pt_init"), LAMBDA init :
        IF ~init.ok THEN init ELSE Ok([inner |-> k.inner, spans |-> <<>>]))

\* for each span: pretokenized.add_span(..)?; pretokenized.add_token_to_span(..)?
add_spans(pretokenized, spans) ==
    Let(require_optional_api("kiwi_pt_add_span"), LAMBDA add_span :
    Let(require_optional_api("kiwi_pt_add_token_to_span"), LAMBDA add_token :
        IF ~add_span.ok THEN add_span
        ELSE IF ~add_token.ok THEN add_token
        ELSE Ok([pretokenized EXCEPT !.spans = spans])))

build_re_word_pretokenized(k, text) ==
    IF k.re_word_rules = <<>> THEN Ok(None)
    ELSE Let(accept_spans(rule_matches(k.re_word_rules, text), text, <<>>), LAMBDA spans :
         IF spans = <<>> THEN Ok(None)
         ELSE Let(new_pretokenized(k), LAMBDA pretokenized :
              IF ~pretokenized.ok THEN pretokenized
              ELSE Let(add_spans(pretokenized.value, spans), LAMBDA filled :
                   IF ~filled.ok THEN filled ELSE Ok(Some(filled.value)))))

(***************************************************************************)
(* Analysis calls.  Every operation returns                                *)
(*   kiwi    the Kiwi struct after the call                                *)
(*   ret     the Result returned to the caller                             *)
(*   calls   the number of native analyzer calls it made                   *)
(*   cached  whether the result came out of a cache                        *)
(* fault is the number of the native analyzer call that fails in this      *)
(* operation (0: none fails).                                              *)
(***************************************************************************)
Out(k, ret, calls, cached) == [kiwi |-> k, ret |-> ret, calls |-> calls, cached |-> cached]

KiwiAnalyzeOption(options, blocklist) ==
    [match_options |-> options.match_options,
     blocklist |-> IF blocklist.some THEN Some(blocklist.value.handle) ELSE None,
     open_ending |-> options.open_ending,
     allowed_dialects |-> options.allowed_dialects,
     dialect_cost |-> options.dialect_cost]

analyze_result_with_overrides(k, text, options, blocklist, pretokenized, fault) ==
    Let(validated_top_n(options), LAMBDA top_n :
    Let(CString_new(text), LAMBDA text_c :
    IF ~top_n.ok THEN Out(k, top_n, 0, FALSE)
    ELSE IF ~text_c.ok THEN Out(k, text_c, 0, FALSE)
    ELSE IF blocklist.some /\ blocklist.value.inner # k.inner
         THEN Out(k, Err("InvalidArgument",
                         "MorphemeSet was created from a different Kiwi instance"), 0, FALSE)
    ELSE IF pretokenized.some /\ k.re_word_rules # <<>>
         THEN Out(k, Err("InvalidArgument",
                         "explicit pretokenized input cannot be combined with add_re_word rules yet"),
                  0, FALSE)
    ELSE Let(IF ~pretokenized.some THEN build_re_word_pretokenized(k, text) ELSE Ok(None),
             LAMBDA reword_pretokenized :
         IF ~reword_pretokenized.ok THEN Out(k, reword_pretokenized, 0, FALSE)
         ELSE IF pretokenized.some /\ pretokenized.value.inner # k.inner
              THEN Out(k, Err("InvalidArgument",
                              "Pretokenized was created from a different Kiwi instance"),
                       0, FALSE)
         ELSE IF fault = 1
              THEN Out(k, Err("Api", "kiwi_analyze returned a null handle"), 1, FALSE)
         ELSE Out(k,
                  Ok(kiwi_analyze(text, top_n.value, KiwiAnalyzeOption(options, blocklist),
                                  IF pretokenized.some THEN Some(pretokenized.value.spans)
                                  ELSE IF reword_pretokenized.value.some
                                       THEN Some(reword_pretokenized.value.value.spans)
                                       ELSE None)),
                  1, FALSE))))

analyze_with_overrides(k, text, options, blocklist, pretokenized, fault) ==
    Let(analyze_result_with_overrides(k, text, options, blocklist, pretokenized, fault),
        LAMBDA result :
        IF ~result.ret.ok THEN result
        ELSE Out(result.kiwi, Ok(to_vec(result.ret.value)), result.calls, FALSE))

analyze_with_cache(k, text, options, fault) ==
    IF options.top_n = 1
    THEN Let(AnalyzeCacheKey_from_options(options), LAMBDA key :
         Let(lookup_analyze_cache(k, text, key), LAMBDA looked :
         IF looked.ret.some THEN Out(looked.kiwi, Ok(looked.ret.value), 0, TRUE)
         ELSE Let(analyze_with_overrides(looked.kiwi, text, options, None, None, fault),
                  LAMBDA fresh :
              IF ~fresh.ret.ok THEN fresh
              ELSE Out(insert_analyze_cache(fresh.kiwi, text, key, fresh.ret.value),
                       fresh.ret, fresh.calls, FALSE))))
    ELSE analyze_with_overrides(k, text, options, None, None, fault)

analyze_with_options(k, text, options, fault) == analyze_with_cache(k, text, options, fault)

analyze(k, text, fault) == analyze_with_options(k, text, k.default_analyze_options, fault)

\* A faulty tokenize_with_cache that stores an empty token list for a text
\* whose analysis failed.
tokenize_caching_errors(k, text, options, fault) ==
    Let(TokenizeCacheKey_from_options(options), LAMBDA key :
    Let(lookup_tokenize_cache(k, text, key), LAMBDA looked :
    IF looked.ret.some THEN Out(looked.kiwi, Ok(looked.ret.value), 0, TRUE)
    ELSE Let(analyze_result_with_overrides(looked.kiwi, text, options, None, None, fault),
             LAMBDA result :
         IF ~result.ret.ok
         THEN Out(insert_tokenize_cache(result.kiwi, text, key, <<>>), result.ret,
                  result.calls, FALSE)
         ELSE Let(first_tokens(result.ret.value), LAMBDA tokens :
              Out(insert_tokenize_cache(result.kiwi, text, key, tokens), Ok(tokens),
                  result.calls, FALSE)))))

tokenize_with_cache(k, text, options, fault) ==
    Let(TokenizeCacheKey_from_options(options), LAMBDA key :
    Let(lookup_tokenize_cache(k, text, key), LAMBDA looked :
    IF looked.ret.some THEN Out(looked.kiwi, Ok(looked.ret.value), 0, TRUE)
    ELSE Let(analyze_result_with_overrides(looked.kiwi, text, options, None, None, fault),
             LAMBDA result :
         IF ~result.ret.ok THEN result
         ELSE Let(first_tokens(result.ret.value), LAMBDA tokens :
              Out(insert_tokenize_cache(result.kiwi, text, key, tokens), Ok(tokens),
                  result.calls, FALSE)))))

tokenize(k, text, fault) ==
    tokenize_with_cache(k, text, with_top_n(k.default_analyze_options, 1), fault)

tokenize_with_match_options(k, text, match_options, fault) ==
    tokenize_with_cache(k, text,
        with_match_options(with_top_n(k.default_analyze_options, 1), match_options), fault)

tokenize_with_options(k, text, options, fault) ==
    tokenize_with_cache(k, text, with_top_n(options, 1), fault)

\* KiwiSentenceResult::to_vec needs the three kiwi_ss_* entry points.
KiwiSentenceResult_to_vec(result) ==
    Let(require_optional_api("kiwi_ss_size"), LAMBDA size :
    Let(require_optional_api("kiwi_ss_begin_position"), LAMBDA begin :
    Let(require_optional_api("kiwi_ss_end_position"), LAMBDA end :
        IF ~size.ok THEN size
        ELSE IF ~begin.ok THEN begin
        ELSE IF ~end.ok THEN end
        ELSE Ok([boundaries_of |-> result]))))

split_into_sents(k, text, match_options, fault) ==
    Let(lookup_split_cache(k, text, match_options), LAMBDA looked :
    IF looked.ret.some THEN Out(looked.kiwi, Ok(looked.ret.value), 0, TRUE)
    ELSE Let(require_optional_api("kiwi_split_into_sents"), LAMBDA split :
         Let(CString_new(text), LAMBDA text_c :
         IF ~split.ok THEN Out(looked.kiwi, split, 0, FALSE)
         ELSE IF ~text_c.ok THEN Out(looked.kiwi, text_c, 0, FALSE)
         ELSE IF fault = 1
              THEN Out(looked.kiwi,
                       Err("Api", "kiwi_split_into_sents returned a null handle"), 1, FALSE)
         ELSE Let(KiwiSentenceResult_to_vec(kiwi_split_into_sents(text, match_options)),
                  LAMBDA boundaries :
              IF ~boundaries.ok THEN Out(looked.kiwi, boundaries, 1, FALSE)
              ELSE Out(insert_split_cache(looked.kiwi, text, match_options, boundaries.value),
                       boundaries, 1, FALSE)))))


(***************************************************************************)
(* Native multi-text call (kiwi_analyze_m).  The reader callback returns 0 *)
(* both past the last line and for an empty line, so the engine reads the  *)
(* longest prefix of non-empty lines and calls the receiver once for each. *)
(***************************************************************************)
lines_read(lines) ==
    Let(position(lines, LAMBDA line : line = <<>>), LAMBDA stop :
        IF stop = 0 THEN lines ELSE Take(lines, stop - 1))

kiwi_analyze_m(lines, top_n, options) ==
    Let(lines_read(lines), LAMBDA read :
        [id \in 1..Len(read) |->
            kiwi_analyze(read[id], top_n, KiwiAnalyzeOption(options, None), None)])

\* The outcome of one native call: an odd fault is a negative return value of
\* the call itself; bit id of fault / 2 is a result of line id that cannot be
\* read (parsing fails, or kiwi_res_prob is NaN with an engine error set).
native_failed(fault) == fault % 2 = 1
item_failed(fault, id) == id <= fault /\ (fault \div (2 ^ id)) % 2 = 1

\* AnalyzeManyContext / TokenizeManyContext / ScoreManyContext before the call.
ManyContext_new(results) == [results |-> results, max_result_len |-> 0, error |-> None]

\* A faulty receiver that forgets an error was already recorded.
never_failed(context) == FALSE

\* if context.error.is_some() { return -1; }
already_failed(context) == context.error.some

\* analyze_receiver_callback (to_vec) and tokenize_receiver_callback
\* (first_tokens) for the result of line id.
receiver_callback(context, id, result, fault, tokens_only) ==
    IF already_failed(context) THEN context
    ELSE IF item_failed(fault, id)
         THEN [context EXCEPT !.error = Some(Err("Api", "kiwi_res " \o ToString(id)))]
         ELSE [context EXCEPT
                  !.results[id] = Some(IF tokens_only THEN first_tokens(result)
                                       ELSE to_vec(result)),
                  !.max_result_len = IF id > @ THEN id ELSE @]

\* score_receiver_callback
score_receiver_callback(context, id, result, fault) ==
    IF already_failed(context) THEN context
    ELSE IF item_failed(fault, id)
         THEN [context EXCEPT !.error = Some(Err("Api", "kiwi_res_prob " \o ToString(id)))]
         ELSE [context EXCEPT !.results[id] = kiwi_res_prob(result)]

\* The loops over the lines of a batch run first over the lower half of their
\* range and then over the upper half, which keeps the order of the loop.
halfway(lo, hi) == (lo + hi) \div 2

\* The engine hands the results lo..hi to the receiver in line order.
RECURSIVE receive_range(_, _, _, _, _, _)
receive_range(context, results, lo, hi, fault, receiver) ==
    IF lo > hi THEN context
    ELSE IF lo = hi
    THEN IF receiver = "score"
         THEN score_receiver_callback(context, lo, results[lo], fault)
         ELSE receiver_callback(context, lo, results[lo], fault, receiver = "tokenize")
    ELSE Done(receive_range(context, results, lo, halfway(lo, hi), fault, receiver),
              LAMBDA lower :
              receive_range(lower, results, halfway(lo, hi) + 1, hi, fault, receiver))

receive(context, results, id, fault, receiver) ==
    receive_range(context, results, id, Len(results), fault, receiver)

\* context.results.into_iter().take(max_result_len).map(unwrap_or_default)
taken_results(context) ==
    [i \in 1..context.max_result_len |->
        IF context.results[i].some THEN context.results[i].value ELSE <<>>]

\* for text in lines: lookup, stop at the first miss.
RECURSIVE lookup_range_analyze(_, _, _, _, _, _)
lookup_range_analyze(k, texts, key, cached, lo, hi) ==
    IF lo > hi THEN [kiwi |-> k, all_hit |-> TRUE, cached |-> cached]
    ELSE IF lo = hi
    THEN Let(lookup_analyze_cache(k, texts[lo], key), LAMBDA looked :
         IF looked.ret.some
         THEN [kiwi |-> looked.kiwi, all_hit |-> TRUE,
               cached |-> Append(cached, looked.ret.value)]
         ELSE [kiwi |-> looked.kiwi, all_hit |-> FALSE, cached |-> cached])
    ELSE Let(lookup_range_analyze(k, texts, key, cached, lo, halfway(lo, hi)), LAMBDA lower :
         IF lower.all_hit
         THEN lookup_range_analyze(lower.kiwi, texts, key, lower.cached, halfway(lo, hi) + 1, hi)
         ELSE lower)

lookup_all_analyze(k, texts, key, cached) ==
    lookup_range_analyze(k, texts, key, cached, 1, Len(texts))

\* for (text, candidates) in line_texts.zip(out): insert.
RECURSIVE insert_range_analyze(_, _, _, _, _, _)
insert_range_analyze(k, texts, key, out, lo, hi) ==
    IF lo > hi THEN k
    ELSE IF lo = hi THEN insert_analyze_cache(k, texts[lo], key, out[lo])
    ELSE Done(insert_range_analyze(k, texts, key, out, lo, halfway(lo, hi)), LAMBDA lower :
              insert_range_analyze(lower, texts, key, out, halfway(lo, hi) + 1, hi))

\* zip stops at the shorter of the two.
insert_all_analyze(k, texts, key, out) ==
    insert_range_analyze(k, texts, key, out, 1,
                    IF Len(texts) <= Len(out) THEN Len(texts) ELSE Len(out))

analyze_many_via_native(k, lines, options, fault) ==
    Let(require_optional_api("kiwi_analyze_m"), LAMBDA analyze_m :
    Let(validated_top_n(options), LAMBDA top_n :
    IF ~analyze_m.ok THEN Out(k, analyze_m, 0, FALSE)
    ELSE IF ~top_n.ok THEN Out(k, top_n, 0, FALSE)
    ELSE Let(AnalyzeCacheKey_from_options(options), LAMBDA cache_key :
         Let(IF options.top_n = 1 THEN lookup_all_analyze(k, lines, cache_key, <<>>)
             ELSE [kiwi |-> k, all_hit |-> FALSE, cached |-> <<>>],
             LAMBDA looked :
         IF looked.all_hit THEN Out(looked.kiwi, Ok(looked.cached), 0, TRUE)
         ELSE Let(receive(ManyContext_new([i \in 1..Len(lines) |-> None]),
                          kiwi_analyze_m(lines, top_n.value, options), 1, fault, "analyze"),
                  LAMBDA context :
              IF native_failed(fault)
              THEN Out(looked.kiwi, Err("Api", "kiwi_analyze_m returned an error"), 1, FALSE)
              ELSE IF context.error.some THEN Out(looked.kiwi, context.error.value, 1, FALSE)
              ELSE Let(taken_results(context), LAMBDA out :
                   Out(IF options.top_n = 1
                       THEN insert_all_analyze(looked.kiwi, lines, cache_key, out)
                       ELSE looked.kiwi,
                       Ok(out), 1, FALSE)))))))

RECURSIVE lookup_range_tokenize(_, _, _, _, _, _)
lookup_range_tokenize(k, texts, key, cached, lo, hi) ==
    IF lo > hi THEN [kiwi |-> k, all_hit |-> TRUE, cached |-> cached]
    ELSE IF lo = hi
    THEN Let(lookup_tokenize_cache(k, texts[lo], key), LAMBDA looked :
         IF looked.ret.some
         THEN [kiwi |-> looked.kiwi, all_hit |-> TRUE,
               cached |-> Append(cached, looked.ret.value)]
         ELSE [kiwi |-> looked.kiwi, all_hit |-> FALSE, cached |-> cached])
    ELSE Let(lookup_range_tokenize(k, texts, key, cached, lo, halfway(lo, hi)), LAMBDA lower :
         IF lower.all_hit
         THEN lookup_range_tokenize(lower.kiwi, texts, key, lower.cached, halfway(lo, hi) + 1, hi)
         ELSE lower)

lookup_all_tokenize(k, texts, key, cached) ==
    lookup_range_tokenize(k, texts, key, cached, 1, Len(texts))

RECURSIVE insert_range_tokenize(_, _, _, _, _, _)
insert_range_tokenize(k, texts, key, out, lo, hi) ==
    IF lo > hi THEN k
    ELSE IF lo = hi THEN insert_tokenize_cache(k, texts[lo], key, out[lo])
    ELSE Done(insert_range_tokenize(k, texts, key, out, lo, halfway(lo, hi)), LAMBDA lower :
              insert_range_tokenize(lower, texts, key, out, halfway(lo, hi) + 1, hi))

\* zip stops at the shorter of the two.
insert_all_tokenize(k, texts, key, out) ==
    insert_range_tokenize(k, texts, key, out, 1,
                    IF Len(texts) <= Len(out) THEN Len(texts) ELSE Len(out))

tokenize_many_via_native(k, lines, options, fault) ==
    Let(require_optional_api("kiwi_analyze_m"), LAMBDA analyze_m :
    Let(validated_top_n(options), LAMBDA top_n :
    IF ~analyze_m.ok THEN Out(k, analyze_m, 0, FALSE)
    ELSE IF ~top_n.ok THEN Out(k, top_n, 0, FALSE)
    ELSE Let(receive(ManyContext_new([i \in 1..Len(lines) |-> None]),
                     kiwi_analyze_m(lines, top_n.value, options), 1, fault, "tokenize"),
             LAMBDA context :
         IF native_failed(fault)
         THEN Out(k, Err("Api", "kiwi_analyze_m returned an error"), 1, FALSE)
         ELSE IF context.error.some THEN Out(k, context.error.value, 1, FALSE)
         ELSE Let(taken_results(context), LAMBDA out :
              Out(IF options.top_n = 1
                  THEN insert_all_tokenize(k, lines, TokenizeCacheKey_from_options(options),
                                           out)
                  ELSE k,
                  Ok(out), 1, FALSE)))))

\* for text in &lines { out.push(self.tokenize_with_cache(text, options)?) }
RECURSIVE tokenize_each(_, _, _, _, _, _, _)
tokenize_each(k, lines, options, fault, out, calls, cached) ==
    IF lines = <<>> THEN Out(k, Ok(out), calls, cached)
    ELSE Let(tokenize_with_cache(k, Head(lines), options,
                                 IF fault > calls THEN fault - calls ELSE 0),
             LAMBDA one :
         IF ~one.ret.ok THEN Out(one.kiwi, one.ret, calls + one.calls, FALSE)
         ELSE tokenize_each(one.kiwi, Tail(lines), options, fault,
                            Append(out, one.ret.value), calls + one.calls,
                            cached /\ one.cached))

tokenize_many(k, lines, fault) ==
    Let(with_top_n(k.default_analyze_options, 1), LAMBDA options :
    IF k.re_word_rules # <<>>
    THEN tokenize_each(k, lines, options, fault, <<>>, 0, TRUE)
    ELSE IF "kiwi_analyze_m" \in api
         THEN Let(IF Len(lines) <= TOKENIZE_CACHE_CAPACITY
                  THEN lookup_all_tokenize(k, lines, TokenizeCacheKey_from_options(options),
                                           <<>>)
                  ELSE [kiwi |-> k, all_hit |-> FALSE, cached |-> <<>>],
                  LAMBDA looked :
              IF looked.all_hit THEN Out(looked.kiwi, Ok(looked.cached), 0, TRUE)
              ELSE tokenize_many_via_native(looked.kiwi, lines, options, fault))
         ELSE tokenize_each(k, lines, options, fault, <<>>, 0, TRUE))

(***************************************************************************)
(* Chunk glue engine.                                                      *)
(***************************************************************************)
\* results: vec![f32::NEG_INFINITY; line_count], filled by the receiver callback.
score_many_via_native(texts, options, fault) ==
    Let(require_optional_api("kiwi_analyze_m"), LAMBDA analyze_m :
    Let(validated_top_n(options), LAMBDA top_n :
    IF ~analyze_m.ok THEN [ret |-> analyze_m, calls |-> 0]
    ELSE IF ~top_n.ok THEN [ret |-> top_n, calls |-> 0]
    ELSE Let(receive(ManyContext_new([i \in 1..Len(texts) |-> NEG_INFINITY]),
                     kiwi_analyze_m(texts, top_n.value, options), 1, fault, "score"),
             LAMBDA context :
         IF native_failed(fault)
         THEN [ret |-> Err("Api", "kiwi_analyze_m (scoring) returned an error"), calls |-> 1]
         ELSE IF context.error.some THEN [ret |-> context.error.value, calls |-> 1]
         ELSE [ret |-> Ok(context.results), calls |-> 1])))

\* What a glue call did on its way: the glue-pair lookups it made and the texts
\* it handed to the native scoring call.
Traced(out, pair_lookups, scored) ==
    [kiwi |-> out.kiwi, ret |-> out.ret, calls |-> out.calls, cached |-> out.cached,
     pair_lookups |-> pair_lookups, scored |-> scored]

\* for index in 0..join_count: consult the glue-pair cache, collect the misses.
RECURSIVE glue_lookup_pairs(_, _, _, _, _, _)
glue_lookup_pairs(k, chunks, index, candidates, missing_indices, space_insertions) ==
    IF index > Len(chunks) - 1
    THEN [kiwi |-> k, candidates |-> candidates, missing_indices |-> missing_indices,
          space_insertions |-> space_insertions, lookups |-> index - 1]
    ELSE Let(lookup_glue_pair_cache(k, chunks[index], chunks[index + 1]), LAMBDA looked :
         IF looked.ret.some
         THEN glue_lookup_pairs(looked.kiwi, chunks, index + 1, candidates, missing_indices,
                                [space_insertions EXCEPT ![index] = looked.ret.value])
         ELSE glue_lookup_pairs(looked.kiwi, chunks, index + 1,
                                candidates \o <<chunks[index] \o <<32>> \o chunks[index + 1],
                                                chunks[index] \o chunks[index + 1]>>,
                                Append(missing_indices, index), space_insertions))

\* scores.get(at).copied().unwrap_or(f32::NEG_INFINITY)
score_at(scores, at) ==
    IF at <= Len(scores) THEN scores[at] ELSE NEG_INFINITY

\* A faulty decision that follows the scores alone.
score_only_insert_space(scores, missing_offset, left) ==
    f32_ge(score_at(scores, 2 * missing_offset - 1), score_at(scores, 2 * missing_offset))

glue_insert_space(scores, missing_offset, left) ==
    \/ f32_ge(score_at(scores, 2 * missing_offset - 1), score_at(scores, 2 * missing_offset))
    \/ ends_with_ascii_word(left)

\* for (missing_offset, &index) in missing_indices: decide, record and cache the pair.
RECURSIVE glue_decide_pairs(_, _, _, _, _, _)
glue_decide_pairs(k, chunks, scores, missing_indices, missing_offset, space_insertions) ==
    IF missing_offset > Len(missing_indices)
    THEN [kiwi |-> k, space_insertions |-> space_insertions]
    ELSE Let(missing_indices[missing_offset], LAMBDA index :
         Let(glue_insert_space(scores, missing_offset, chunks[index]), LAMBDA insert_space :
         glue_decide_pairs(insert_glue_pair_cache(k, chunks[index], chunks[index + 1],
                                                  insert_space),
                           chunks, scores, missing_indices, missing_offset + 1,
                           [space_insertions EXCEPT ![index] = insert_space])))

\* A faulty separator that ignores the newline flags.
space_separator(insert_new_lines, space_insertions, index) ==
    IF space_insertions[index] THEN <<32>> ELSE <<>>

\* The separator pushed after chunk index: '\n', ' ' or nothing.
glue_separator(insert_new_lines, space_insertions, index) ==
    IF ~space_insertions[index] THEN <<>>
    ELSE IF insert_new_lines.some /\ index <= Len(insert_new_lines.value)
            /\ insert_new_lines.value[index]
         THEN <<10>>
         ELSE <<32>>

RECURSIVE glue_compose(_, _, _, _)
glue_compose(chunks, insert_new_lines, space_insertions, index) ==
    IF index > Len(chunks) - 1 THEN chunks[Len(chunks)]
    ELSE chunks[index] \o glue_separator(insert_new_lines, space_insertions, index)
         \o glue_compose(chunks, insert_new_lines, space_insertions, index + 1)

\* if return_space_insertions { Some(flags) } else { None }
returned_insertions(return_space_insertions, flags) ==
    IF return_space_insertions THEN Some(flags) ELSE None

\* Compose the text, store it in the glue cache and return it.
glue_finish(k, chunks, insert_new_lines, space_insertions, return_space_insertions, calls) ==
    Let(glue_compose(chunks, insert_new_lines, space_insertions, 1), LAMBDA result :
        Out(insert_glue_cache(k, chunks, insert_new_lines, result, space_insertions),
            Ok(<<result, returned_insertions(return_space_insertions, space_insertions)>>),
            calls, FALSE))

glue_with_options(k, text_chunks, insert_new_lines, return_space_insertions, fault) ==
    IF text_chunks = <<>>
    THEN Traced(Out(k, Ok(<<<<>>, returned_insertions(return_space_insertions, <<>>)>>),
                    0, FALSE), 0, <<>>)
    ELSE Let([i \in 1..Len(text_chunks) |-> trim(text_chunks[i])], LAMBDA chunks :
         IF insert_new_lines.some /\ Len(insert_new_lines.value) # Len(chunks) - 1
         THEN Traced(Out(k, Err("InvalidArgument", "insert_new_lines length"), 0, FALSE),
                     0, <<>>)
         ELSE Let(lookup_glue_cache(k, chunks, insert_new_lines), LAMBDA looked :
              IF looked.ret.some
              THEN Traced(Out(looked.kiwi,
                              Ok(<<looked.ret.value[1],
                                   returned_insertions(return_space_insertions,
                                                       looked.ret.value[2])>>),
                              0, TRUE), 0, <<>>)
              ELSE Let(glue_lookup_pairs(looked.kiwi, chunks, 1, <<>>, <<>>,
                                         [i \in 1..(Len(chunks) - 1) |-> FALSE]),
                       LAMBDA pairs :
                   IF pairs.missing_indices = <<>>
                   THEN Traced(glue_finish(pairs.kiwi, chunks, insert_new_lines,
                                           pairs.space_insertions, return_space_insertions,
                                           0),
                               pairs.lookups, <<>>)
                   ELSE Let(score_many_via_native(pairs.candidates,
                                                  with_top_n(k.default_analyze_options, 1),
                                                  fault),
                            LAMBDA scores :
                        IF ~scores.ret.ok
                        THEN Traced(Out(pairs.kiwi, scores.ret, scores.calls, FALSE),
                                    pairs.lookups,
                                    IF scores.calls = 0 THEN <<>> ELSE pairs.candidates)
                        ELSE Let(glue_decide_pairs(pairs.kiwi, chunks, scores.ret.value,
                                                   pairs.missing_indices, 1,
                                                   pairs.space_insertions),
                                 LAMBDA decided :
                             Traced(glue_finish(decided.kiwi, chunks, insert_new_lines,
                                                decided.space_insertions,
                                                return_space_insertions, scores.calls),
                                    pairs.lookups, pairs.candidates))))))

glue(k, text_chunks, fault) ==
    Let(glue_with_options(k, text_chunks, None, FALSE, fault), LAMBDA out :
        IF out.ret.ok THEN Out(out.kiwi, Ok(out.ret.value[1]), out.calls, out.cached)
        ELSE out)

(***************************************************************************)
(* Join.  The join cache keeps its most recent entry at the back.  A cached *)
(* entry holds the joiner built for its morph sequence; rendering it may    *)
(* fail (kiwi_joiner_get_w unavailable, or a null pointer from the getter). *)
(* calls counts the joiners built.                                          *)
(***************************************************************************)
kiwi_joiner_get(joiner, utf16) ==
    [joined_of |-> [morphs |-> joiner.morphs, lm_search |-> joiner.lm_search]]

PreparedJoiner_get(joiner, fault) ==
    IF fault THEN Err("Api", "kiwi_joiner_get returned a null pointer")
    ELSE Ok(kiwi_joiner_get(joiner, FALSE))

PreparedJoiner_get_utf16(joiner, fault) ==
    IF ~joiner.get_w_fn THEN Err("Api", "kiwi_joiner_get_w")
    ELSE IF fault THEN Err("Api", "kiwi_joiner_get_w returned a null pointer")
    ELSE Ok(kiwi_joiner_get(joiner, TRUE))

PreparedJoinMorphs_from_pairs(morphs) ==
    IF \E i \in 1..Len(morphs) : ~CString_new(morphs[i][1]).ok \/ ~CString_new(morphs[i][2]).ok
    THEN Err("NulByte", "morphs") ELSE Ok(morphs)

prepare_joiner(k, morphs, lm_search) ==
    Let(require_optional_api("kiwi_new_joiner"), LAMBDA new_joiner :
    Let(require_optional_api("kiwi_joiner_add"), LAMBDA add_fn :
    Let(require_optional_api("kiwi_joiner_get"), LAMBDA get_fn :
        IF ~new_joiner.ok THEN new_joiner
        ELSE IF ~add_fn.ok THEN add_fn
        ELSE IF ~get_fn.ok THEN get_fn
        ELSE Ok([morphs |-> morphs, lm_search |-> lm_search,
                 get_w_fn |-> "kiwi_joiner_get_w" \in api]))))

\* if utf16 { joiner.get_utf16() } else { joiner.get() }
render(joiner, utf16, fault) ==
    IF utf16 THEN PreparedJoiner_get_utf16(joiner, fault) ELSE PreparedJoiner_get(joiner, fault)

\* The hit branch: the entry is taken out, rendered, and pushed back only
\* when rendering succeeded.
join_hit(k, index, utf16, fault) ==
    Let(k.join_cache[index], LAMBDA entry :
    Let(remove(k.join_cache, index), LAMBDA removed :
    Let(render(entry.joiner, utf16, fault), LAMBDA output :
        IF ~output.ok THEN Out([k EXCEPT !.join_cache = removed], output, 0, FALSE)
        ELSE Out([k EXCEPT !.join_cache = push_back(removed, entry)], output, 0, TRUE))))

\* The miss branch: build a joiner, render it, store it at the back.
join_miss(k, morphs, lm_search, utf16, fault) ==
    Let(PreparedJoinMorphs_from_pairs(morphs), LAMBDA prepared :
    IF ~prepared.ok THEN Out(k, prepared, 0, FALSE)
    ELSE Let(prepare_joiner(k, prepared.value, lm_search), LAMBDA joiner :
         IF ~joiner.ok THEN Out(k, joiner, 0, FALSE)
         ELSE Let(render(joiner.value, utf16, fault), LAMBDA output :
              IF ~output.ok THEN Out(k, output, 1, FALSE)
              ELSE Out([k EXCEPT !.join_cache =
                            push_back(IF Len(@) >= JOIN_CACHE_CAPACITY THEN pop_front(@)
                                      ELSE @,
                                      [lm_search |-> lm_search, morphs |-> morphs,
                                       joiner |-> joiner.value])],
                       output, 1, FALSE))))

join_position(k, morphs, lm_search) ==
    position(k.join_cache, LAMBDA entry : JoinCacheEntry_matches(entry, morphs, lm_search))

join_with_cache(k, morphs, lm_search, utf16, fault) ==
    Let(join_position(k, morphs, lm_search), LAMBDA index :
        IF index # 0 THEN join_hit(k, index, utf16, fault)
        ELSE join_miss(k, morphs, lm_search, utf16, fault))

join(k, morphs, lm_search, fault) == join_with_cache(k, morphs, lm_search, FALSE, fault)
join_utf16(k, morphs, lm_search, fault) == join_with_cache(k, morphs, lm_search, TRUE, fault)

(***************************************************************************)
(* Configuration mutators.  A mutator returns the Kiwi struct, the engine  *)
(* state and its Result.  fault numbers the native call that reports an    *)
(* error; a native setter that reports an error leaves the engine as it    *)
(* was.                                                                    *)
(***************************************************************************)
Mut(k, engine, ret) == [kiwi |-> k, native |-> engine, ret |-> ret]

global_config(k, fault) ==
    Let(require_optional_api("kiwi_get_global_config"), LAMBDA get_config :
        IF ~get_config.ok THEN get_config
        ELSE IF fault = 1 THEN Err("Api", "kiwi_get_global_config returned an error")
        ELSE Ok(native.config))

set_global_config(k, config, fault) ==
    Let(require_optional_api("kiwi_set_global_config"), LAMBDA set_config :
        IF ~set_config.ok THEN Mut(k, native, set_config)
        ELSE IF fault = 1
             THEN Mut(k, native, Err("Api", "kiwi_set_global_config returned an error"))
        ELSE Mut(clear_inference_caches(k), [native EXCEPT !.config = config], Ok("unit")))

set_integrate_allomorph(k, value, fault) ==
    Let(global_config(k, fault), LAMBDA config :
        IF ~config.ok THEN Mut(k, native, config)
        ELSE set_global_config(k, [config.value EXCEPT !.integrate_allomorph = value],
                               IF fault = 2 THEN 1 ELSE 0))

set_space_tolerance(k, value, fault) ==
    Let(global_config(k, fault), LAMBDA config :
        IF ~config.ok THEN Mut(k, native, config)
        ELSE set_global_config(k, [config.value EXCEPT !.space_tolerance = value],
                               IF fault = 2 THEN 1 ELSE 0))

\* A faulty set_option that clears the caches before it reads the engine's
\* error.
set_option_clearing_first(k, option, value, fault) ==
    Let(require_optional_api("kiwi_set_option"), LAMBDA set :
        IF ~set.ok THEN Mut(k, native, set)
        ELSE IF fault = 1
             THEN Mut(clear_inference_caches(k), native,
                      Err("Api", "kiwi_set_option returned an error"))
        ELSE Mut(clear_inference_caches(k), [native EXCEPT !.option = value], Ok("unit")))

set_option(k, option, value, fault) ==
    Let(require_optional_api("kiwi_set_option"), LAMBDA set :
        IF ~set.ok THEN Mut(k, native, set)
        ELSE IF fault = 1 THEN Mut(k, native, Err("Api", "kiwi_set_option returned an error"))
        ELSE Mut(clear_inference_caches(k), [native EXCEPT !.option = value], Ok("unit")))

set_option_f(k, option, value, fault) ==
    Let(require_optional_api("kiwi_set_option_f"), LAMBDA set :
        IF ~set.ok THEN Mut(k, native, set)
        ELSE IF fault = 1 THEN Mut(k, native, Err("Api", "kiwi_set_option_f returned an error"))
        ELSE Mut(clear_inference_caches(k), [native EXCEPT !.option_f = value], Ok("unit")))

set_default_analyze_options(k, options) ==
    Mut(clear_inference_caches([k EXCEPT !.default_analyze_options = options]),
        native, Ok("unit"))

add_re_word(k, pattern, tag) ==
    Let(Regex_new(pattern), LAMBDA compiled :
        IF ~compiled.ok THEN Mut(k, native, compiled)
        ELSE Mut(clear_inference_caches(
                     [k EXCEPT !.re_word_rules =
                          Append(@, [pattern |-> compiled.value, tag |-> tag])]),
                 native, Ok("unit")))

clear_re_words(k) ==
    Mut(clear_inference_caches([k EXCEPT !.re_word_rules = <<>>]), native, Ok("unit"))

(***************************************************************************)
(* Inputs.                                                                 *)
(***************************************************************************)
\* Two 17-byte texts with the same length, first 8 and last 8 bytes.
T1 == <<97, 97, 97, 97, 97, 97, 97, 97, 120, 98, 98, 98, 98, 98, 98, 98, 98>>
T2 == <<97, 97, 97, 97, 97, 97, 97, 97, 121, 98, 98, 98, 98, 98, 98, 98, 98>>
Texts == {T1, T2}

RECURSIVE SeqsUpTo(_, _)
SeqsUpTo(S, n) ==
    IF n = 0 THEN {<<>>}
    ELSE SeqsUpTo(S, n - 1) \cup {Append(q, x) : q \in [1..(n - 1) -> S], x \in S}

Batches == SeqsUpTo(Texts, MaxBatch)

\* "a " and " 가": an ASCII word and a Hangul syllable, with outer whitespace.
ChunkA == <<97, 32>>
ChunkK == <<32, 44032>>
ChunkLists == SeqsUpTo({ChunkA, ChunkK}, MaxChunks)
NewLineFlags == {None} \cup {Some(f) : f \in SeqsUpTo(BOOLEAN, MaxChunks - 1)}

OptionsDomain ==
    {with_top_n(AnalyzeOptions_default, 0),
     AnalyzeOptions_default,
     with_top_n(AnalyzeOptions_default, 2),
     with_match_options(AnalyzeOptions_default, KIWI_MATCH_ALL)}

GlobalConfigs == [integrate_allomorph : BOOLEAN, space_tolerance : 0..1]
OptionValues == 0..1

\* "x" occurs in T1 only; "(" is not a valid pattern.
Patterns == {<<120>>, <<40>>}
TagNNP == <<78, 78, 80>>
TagNNG == <<78, 78, 71>>

Morphs1 == << <<<<44032>>, TagNNG>> >>
Morphs2 == << <<<<44032>>, TagNNG>>, <<<<97>>, TagNNP>> >>
MorphSeqs == {Morphs1, Morphs2}

EntryPoints ==
    {"kiwi_get_global_config", "kiwi_set_global_config", "kiwi_set_option",
     "kiwi_set_option_f", "kiwi_analyze_m", "kiwi_split_into_sents", "kiwi_ss_size",
     "kiwi_ss_begin_position", "kiwi_ss_end_position", "kiwi_pt_init", "kiwi_pt_add_span",
     "kiwi_pt_add_token_to_span", "kiwi_new_joiner", "kiwi_joiner_add", "kiwi_joiner_get",
     "kiwi_joiner_get_w"}

Mutators ==
    {"set_global_config", "set_integrate_allomorph", "set_space_tolerance", "set_option",
     "set_option_f", "set_default_analyze_options", "add_re_word", "clear_re_words"}

(***************************************************************************)
(* The instance right after construction.                                  *)
(***************************************************************************)
Kiwi_new ==
    [inner |-> "library",
     default_analyze_options |-> AnalyzeOptions_default,
     re_word_rules |-> <<>>,
     join_cache |-> <<>>,
     tokenize_cache |-> <<>>,
     analyze_cache |-> <<>>,
     split_cache |-> <<>>,
     glue_cache |-> <<>>,
     glue_pair_cache |-> <<>>]

Engine_new ==
    [config |-> [integrate_allomorph |-> TRUE, space_tolerance |-> 0],
     option |-> 0, option_f |-> 0]

\* A fresh instance on the given library with a budget of calls.
Start(budget, library) ==
    /\ kiwi = Kiwi_new
    /\ native = Engine_new
    /\ api = library
    /\ last = [op |-> "new", args |-> <<>>, ret |-> Ok("unit"), calls |-> 0,
               cached |-> FALSE, before |-> Kiwi_new]
    /\ ops = budget

Init == Start(MaxOps, EntryPoints)

(***************************************************************************)
(* Actions: one per public operation.                                      *)
(***************************************************************************)
Call(op, args, out) ==
    /\ ops > 0
    /\ kiwi' = out.kiwi
    /\ last' = [op |-> op, args |-> args, ret |-> out.ret, calls |-> out.calls,
                cached |-> out.cached, before |-> kiwi]
    /\ ops' = ops - 1
    /\ UNCHANGED <<native, api>>

Mutate(op, args, m) ==
    /\ ops > 0
    /\ kiwi' = m.kiwi
    /\ native' = m.native
    /\ last' = [op |-> op, args |-> args, ret |-> m.ret, calls |-> 0, cached |-> FALSE,
                before |-> kiwi]
    /\ ops' = ops - 1
    /\ UNCHANGED api

Tokenize ==
    \E text \in Texts, fault \in 0..1 :
        Call("tokenize", [text |-> text], tokenize(kiwi, text, fault))

TokenizeWithMatchOptions ==
    \E text \in Texts, fault \in 0..1 :
        Call("tokenize_with_match_options", [text |-> text, match_options |-> KIWI_MATCH_ALL],
             tokenize_with_match_options(kiwi, text, KIWI_MATCH_ALL, fault))

Analyze ==
    \E text \in Texts, fault \in 0..1 :
        Call("analyze", [text |-> text, options |-> kiwi.default_analyze_options],
             analyze(kiwi, text, fault))

AnalyzeWithOptions ==
    \E text \in Texts, options \in OptionsDomain, fault \in 0..1 :
        Call("analyze_with_options", [text |-> text, options |-> options],
             analyze_with_options(kiwi, text, options, fault))

SplitIntoSents ==
    \E text \in Texts, fault \in 0..1 :
        Call("split_into_sents", [text |-> text, match_options |-> KIWI_MATCH_ALL],
             split_into_sents(kiwi, text, KIWI_MATCH_ALL, fault))

Glue ==
    \E chunks \in ChunkLists, fault \in 0..1 :
        Call("glue", [chunks |-> chunks, insert_new_lines |-> None, flags |-> FALSE],
             glue(kiwi, chunks, fault))

GlueWithOptions ==
    \E chunks \in ChunkLists, insert_new_lines \in NewLineFlags, flags \in BOOLEAN,
       fault \in 0..1 :
        Call("glue_with_options",
             [chunks |-> chunks, insert_new_lines |-> insert_new_lines, flags |-> flags],
             glue_with_options(kiwi, chunks, insert_new_lines, flags, fault))

TokenizeMany ==
    \E lines \in Batches, fault \in 0..MaxBatch :
        Call("tokenize_many", [lines |-> lines], tokenize_many(kiwi, lines, fault))

AnalyzeManyViaNative ==
    \E lines \in Batches, options \in OptionsDomain, fault \in 0..1 :
        Call("analyze_many_via_native", [lines |-> lines, options |-> options],
             analyze_many_via_native(kiwi, lines, options, fault))

Join ==
    \E morphs \in MorphSeqs, lm_search \in BOOLEAN, fault \in BOOLEAN :
        Call("join", [morphs |-> morphs, lm_search |-> lm_search],
             join(kiwi, morphs, lm_search, fault))

JoinUtf16 ==
    \E morphs \in MorphSeqs, lm_search \in BOOLEAN, fault \in BOOLEAN :
        Call("join_utf16", [morphs |-> morphs, lm_search |-> lm_search],
             join_utf16(kiwi, morphs, lm_search, fault))

SetGlobalConfig ==
    \E config \in GlobalConfigs, fault \in 0..1 :
        Mutate("set_global_config", [config |-> config],
               set_global_config(kiwi, config, fault))

SetIntegrateAllomorph ==
    \E value \in BOOLEAN, fault \in 0..2 :
        Mutate("set_integrate_allomorph", [value |-> value],
               set_integrate_allomorph(kiwi, value, fault))

SetSpaceTolerance ==
    \E value \in 0..1, fault \in 0..2 :
        Mutate("set_space_tolerance", [value |-> value],
               set_space_tolerance(kiwi, value, fault))

SetOption ==
    \E value \in OptionValues, fault \in 0..1 :
        Mutate("set_option", [value |-> value], set_option(kiwi, 1, value, fault))

SetOptionF ==
    \E value \in OptionValues, fault \in 0..1 :
        Mutate("set_option_f", [value |-> value], set_option_f(kiwi, 1, value, fault))

SetDefaultAnalyzeOptions ==
    \E options \in OptionsDomain :
        Mutate("set_default_analyze_options", [options |-> options],
               set_default_analyze_options(kiwi, options))

AddReWord ==
    \E pattern \in Patterns :
        /\ Len(kiwi.re_word_rules) < MaxRules
        /\ Mutate("add_re_word", [pattern |-> pattern], add_re_word(kiwi, pattern, TagNNP))

ClearReWords == Mutate("clear_re_words", <<>>, clear_re_words(kiwi))

Next ==
    \/ Join
    \/ JoinUtf16
    \/ Tokenize
    \/ TokenizeWithMatchOptions
    \/ Analyze
    \/ AnalyzeWithOptions
    \/ SplitIntoSents
    \/ TokenizeMany
    \/ AnalyzeManyViaNative
    \/ SetGlobalConfig
    \/ SetIntegrateAllomorph
    \/ SetSpaceTolerance
    \/ SetOption
    \/ SetOptionF
    \/ SetDefaultAnalyzeOptions
    \/ AddReWord
    \/ ClearReWords
    \/ Glue
    \/ GlueWithOptions

Spec == Init /\ [][Next]_vars

(***************************************************************************)
(* The inference operations and the mutators alone, three calls deep: the  *)
(* behaviours in which a batch call fills a cache that a later single call *)
(* reads.                                                                  *)
(***************************************************************************)
InitCache == Start(MaxCacheOps, EntryPoints)

NextCache ==
    \/ Tokenize
    \/ Analyze
    \/ SplitIntoSents
    \/ AnalyzeManyViaNative
    \/ SetOption
    \/ AddReWord
    \/ ClearReWords

SpecCache == InitCache /\ [][NextCache]_vars

(***************************************************************************)
(* Filling one cache of a fresh instance past its capacity: the calls of   *)
(* one behaviour are all the same operation, each on a key not used        *)
(* before.  Filled is the number of calls made so far.                     *)
(***************************************************************************)
MaxFill == GLUE_PAIR_CACHE_CAPACITY + 1

Filled == MaxFill - ops

\* The i-th filler text: one two-byte character, different for each i.
FillText(i) == <<256 + i>>
FillMorphs(i) == << <<FillText(i), TagNNG>> >>
FillPair(i) == <<FillText(i), ChunkK>>

InitLRU == Start(MaxFill, EntryPoints)

FillTokenize ==
    /\ last.op \in {"new", "tokenize"}
    /\ Filled < TOKENIZE_CACHE_CAPACITY + 1
    /\ Call("tokenize", [text |-> FillText(Filled + 1)],
            tokenize(kiwi, FillText(Filled + 1), 0))

FillAnalyze ==
    /\ last.op \in {"new", "analyze"}
    /\ Filled < ANALYZE_CACHE_CAPACITY + 1
    /\ Call("analyze", [text |-> FillText(Filled + 1),
                        options |-> kiwi.default_analyze_options],
            analyze(kiwi, FillText(Filled + 1), 0))

FillSplit ==
    /\ last.op \in {"new", "split_into_sents"}
    /\ Filled < SPLIT_CACHE_CAPACITY + 1
    /\ Call("split_into_sents",
            [text |-> FillText(Filled + 1), match_options |-> KIWI_MATCH_ALL],
            split_into_sents(kiwi, FillText(Filled + 1), KIWI_MATCH_ALL, 0))

FillGlue ==
    /\ last.op = "new" \/ (last.op = "glue" /\ Len(last.args.chunks) = 1)
    /\ Filled < GLUE_CACHE_CAPACITY + 1
    /\ Call("glue", [chunks |-> <<FillText(Filled + 1)>>, insert_new_lines |-> None,
                     flags |-> FALSE],
            glue(kiwi, <<FillText(Filled + 1)>>, 0))

FillGluePair ==
    /\ last.op = "new" \/ (last.op = "glue" /\ Len(last.args.chunks) = 2)
    /\ Filled < GLUE_PAIR_CACHE_CAPACITY + 1
    /\ Call("glue", [chunks |-> FillPair(Filled + 1), insert_new_lines |-> None,
                     flags |-> FALSE],
            glue(kiwi, FillPair(Filled + 1), 0))

FillJoin ==
    /\ last.op \in {"new", "join"}
    /\ Filled < JOIN_CACHE_CAPACITY + 1
    /\ Call("join", [morphs |-> FillMorphs(Filled + 1), lm_search |-> FALSE],
            join(kiwi, FillMorphs(Filled + 1), FALSE, FALSE))

NextLRU ==
    \/ FillTokenize
    \/ FillAnalyze
    \/ FillSplit
    \/ FillGlue
    \/ FillGluePair
    \/ FillJoin

SpecLRU == InitLRU /\ [][NextLRU]_vars

(***************************************************************************)
(* Properties.                                                             *)
(***************************************************************************)
TokenizeOps == {"tokenize", "tokenize_with_match_options"}
AnalyzeOps == {"analyze", "analyze_with_options"}
GlueOps == {"glue", "glue_with_options"}
JoinOps == {"join", "join_utf16"}

\* The options the recorded call ran under.
OptionsOf(call) ==
    IF call.op = "tokenize" THEN with_top_n(call.before.default_analyze_options, 1)
    ELSE IF call.op = "tokenize_with_match_options"
         THEN with_match_options(with_top_n(call.before.default_analyze_options, 1),
                                 call.args.match_options)
    ELSE call.args.options

\* The trimmed chunks of the recorded glue call.
ChunksOf(call) == [i \in 1..Len(call.args.chunks) |-> trim(call.args.chunks[i])]

\* What the recorded call returns when it is made with every inference cache
\* empty and the native analyzer answering.
Uncached(call) ==
    Let(clear_inference_caches(call.before), LAMBDA fresh :
        IF call.op \in TokenizeOps
        THEN tokenize_with_options(fresh, call.args.text, OptionsOf(call), 0).ret
        ELSE IF call.op \in AnalyzeOps
        THEN analyze_with_options(fresh, call.args.text, call.args.options, 0).ret
        ELSE IF call.op = "split_into_sents"
        THEN split_into_sents(fresh, call.args.text, call.args.match_options, 0).ret
        ELSE IF call.op = "glue" THEN glue(fresh, call.args.chunks, 0).ret
        ELSE glue_with_options(fresh, call.args.chunks, call.args.insert_new_lines,
                               call.args.flags, 0).ret)

\* C1: every tokenize, analyze, split_into_sents and glue call that succeeds
\* returns exactly what the same call returns on the same instance with its
\* inference caches empty: a cache never changes a result.
CacheTransparency ==
    (/\ last.op \in TokenizeOps \cup AnalyzeOps \cup GlueOps \cup {"split_into_sents"}
     /\ last.ret.ok)
    => last.ret = Uncached(last)

\* C2: after every successful configuration mutator the tokenize, analyze,
\* split, glue and glue-pair caches are empty, and no tokenize, analyze, split
\* or glue call made next is served from a cache.
CachesInvalidated ==
    (last.op \in Mutators /\ last.ret.ok)
    => /\ kiwi.tokenize_cache = <<>>
       /\ kiwi.analyze_cache = <<>>
       /\ kiwi.split_cache = <<>>
       /\ kiwi.glue_cache = <<>>
       /\ kiwi.glue_pair_cache = <<>>
       /\ \A text \in Texts :
            /\ ~tokenize(kiwi, text, 0).cached
            /\ tokenize(kiwi, text, 0).calls = 1
            /\ ~analyze(kiwi, text, 0).cached
            /\ ~split_into_sents(kiwi, text, KIWI_MATCH_ALL, 0).cached
            /\ split_into_sents(kiwi, text, KIWI_MATCH_ALL, 0).calls = 1
       /\ \A chunks \in ChunkLists :
            /\ ~glue(kiwi, chunks, 0).cached
            /\ Len(chunks) >= 2 => glue(kiwi, chunks, 0).calls = 1

\* A mutator succeeded on an instance whose glue and glue-pair caches held
\* entries, and emptied them.
CachesInvalidatedWitness ==
    /\ last.op \in Mutators
    /\ last.ret.ok
    /\ last.before.glue_cache # <<>>
    /\ last.before.glue_pair_cache # <<>>
    /\ kiwi.glue_cache = <<>>

\* C3: a configuration mutator, successful or not, leaves the join cache as it
\* was (same entries, same order), and every entry of it is still served by
\* join from the cached joiner, no new joiner being built.
JoinCacheExempt ==
    last.op \in Mutators
    => /\ kiwi.join_cache = last.before.join_cache
       /\ \A i \in 1..Len(kiwi.join_cache) :
            /\ join(kiwi, kiwi.join_cache[i].morphs, kiwi.join_cache[i].lm_search, FALSE).cached
            /\ join(kiwi, kiwi.join_cache[i].morphs, kiwi.join_cache[i].lm_search, FALSE).calls = 0
            /\ join(kiwi, kiwi.join_cache[i].morphs, kiwi.join_cache[i].lm_search, FALSE).ret.ok

\* A mutator succeeded, clearing the other caches, on an instance with a cached join.
JoinCacheExemptWitness ==
    /\ last.op \in Mutators
    /\ last.ret.ok
    /\ kiwi.join_cache # <<>>

\* C4: once capacity + 1 distinct keys were inserted into an empty cache, with
\* no hit in between, a lookup of the first key misses and a lookup of each of
\* the other capacity keys hits; for each of the six caches.
Eviction ==
    /\ (last.op = "tokenize" /\ Filled = TOKENIZE_CACHE_CAPACITY + 1)
       => \A j \in 1..Filled :
            lookup_tokenize_cache(kiwi, FillText(j), TokenizeCacheKey_from_options(
                with_top_n(kiwi.default_analyze_options, 1))).ret.some <=> j # 1
    /\ (last.op = "analyze" /\ Filled = ANALYZE_CACHE_CAPACITY + 1)
       => \A j \in 1..Filled :
            lookup_analyze_cache(kiwi, FillText(j), AnalyzeCacheKey_from_options(
                kiwi.default_analyze_options)).ret.some <=> j # 1
    /\ (last.op = "split_into_sents" /\ Filled = SPLIT_CACHE_CAPACITY + 1)
       => \A j \in 1..Filled :
            lookup_split_cache(kiwi, FillText(j), KIWI_MATCH_ALL).ret.some <=> j # 1
    /\ (last.op = "glue" /\ Len(last.args.chunks) = 1 /\ Filled = GLUE_CACHE_CAPACITY + 1)
       => \A j \in 1..Filled :
            lookup_glue_cache(kiwi, <<FillText(j)>>, None).ret.some <=> j # 1
    /\ (last.op = "glue" /\ Len(last.args.chunks) = 2
        /\ Filled = GLUE_PAIR_CACHE_CAPACITY + 1)
       => \A j \in 1..Filled :
            lookup_glue_pair_cache(kiwi, FillText(j), trim(ChunkK)).ret.some <=> j # 1
    /\ (last.op = "join" /\ Filled = JOIN_CACHE_CAPACITY + 1)
       => \A j \in 1..Filled :
            join(kiwi, FillMorphs(j), FALSE, FALSE).cached <=> j # 1

\* The tokenize cache took capacity + 1 distinct keys, every call a miss.
EvictionWitness ==
    /\ last.op = "tokenize"
    /\ Filled = TOKENIZE_CACHE_CAPACITY + 1
    /\ Len(kiwi.tokenize_cache) = TOKENIZE_CACHE_CAPACITY
    /\ ~last.cached

\* C5: a hit makes the hit entry the most recently used one of its cache (the
\* front of the tokenize, analyze, split, glue and glue-pair caches, the back
\* of the join cache), and an insert into a full cache drops the least
\* recently used entry and no other.
RecencyOrder ==
    /\ (last.op \in TokenizeOps /\ last.cached)
       => /\ kiwi.tokenize_cache # <<>>
          /\ kiwi.tokenize_cache[1].text = last.args.text
    /\ (last.op \in AnalyzeOps /\ last.cached)
       => /\ kiwi.analyze_cache # <<>>
          /\ kiwi.analyze_cache[1].text = last.args.text
    /\ (last.op = "split_into_sents" /\ last.cached)
       => /\ kiwi.split_cache # <<>>
          /\ kiwi.split_cache[1].text = last.args.text
    /\ (last.op \in GlueOps /\ last.cached)
       => /\ kiwi.glue_cache # <<>>
          /\ kiwi.glue_cache[1].chunks = ChunksOf(last)
    /\ (/\ last.op \in GlueOps
        /\ last.ret.ok
        /\ ~last.cached
        /\ Len(last.args.chunks) = 2
        /\ lookup_glue_pair_cache(last.before, ChunksOf(last)[1], ChunksOf(last)[2]).ret.some)
       => /\ kiwi.glue_pair_cache # <<>>
          /\ kiwi.glue_pair_cache[1].left = ChunksOf(last)[1]
          /\ kiwi.glue_pair_cache[1].right = ChunksOf(last)[2]
    /\ (/\ last.op \in JoinOps
        /\ join_position(last.before, last.args.morphs, last.args.lm_search) # 0)
       => /\ kiwi.join_cache # <<>>
          /\ JoinCacheEntry_matches(kiwi.join_cache[Len(kiwi.join_cache)],
                                    last.args.morphs, last.args.lm_search)
    /\ (/\ last.op \in JoinOps
        /\ join_position(last.before, last.args.morphs, last.args.lm_search) = 0
        /\ last.ret.ok
        /\ Len(last.before.join_cache) = JOIN_CACHE_CAPACITY)
       => SubSeq(kiwi.join_cache, 1, JOIN_CACHE_CAPACITY - 1) = Tail(last.before.join_cache)

\* Two entries of a cache with the same match key.
Duplicates(cache, SameKey(_, _)) ==
    \E i, j \in 1..Len(cache) : i < j /\ SameKey(cache[i], cache[j])

\* C6: no cache ever holds two entries with the same match key.
NoDuplicates ==
    /\ ~Duplicates(kiwi.tokenize_cache,
                   LAMBDA a, b : a.key = b.key /\ a.fingerprint = b.fingerprint
                                 /\ a.text = b.text)
    /\ ~Duplicates(kiwi.analyze_cache,
                   LAMBDA a, b : a.key = b.key /\ a.fingerprint = b.fingerprint
                                 /\ a.text = b.text)
    /\ ~Duplicates(kiwi.split_cache,
                   LAMBDA a, b : a.match_options = b.match_options
                                 /\ a.fingerprint = b.fingerprint /\ a.text = b.text)
    /\ ~Duplicates(kiwi.glue_cache,
                   LAMBDA a, b : a.chunks = b.chunks
                                 /\ a.insert_new_lines = b.insert_new_lines)
    /\ ~Duplicates(kiwi.glue_pair_cache,
                   LAMBDA a, b : a.left = b.left /\ a.right = b.right)
    /\ ~Duplicates(kiwi.join_cache,
                   LAMBDA a, b : a.morphs = b.morphs /\ a.lm_search = b.lm_search)

\* A batch that repeats a text, and a glue call that repeats an adjacent pair,
\* each left one entry for the repeated key.
NoDuplicatesWitness ==
    \/ /\ last.op = "tokenize_many"
       /\ last.ret.ok
       /\ Len(last.args.lines) = 2
       /\ last.args.lines[1] = last.args.lines[2]
       /\ Len(kiwi.tokenize_cache) = 1
    \/ /\ last.op = "glue"
       /\ last.ret.ok
       /\ last.args.chunks = <<ChunkA, ChunkA, ChunkA>>
       /\ Len(kiwi.glue_pair_cache) = 1

\* C7: a call is served from a cache only by an entry that stores the options
\* key and the exact text of the request (the chunk list and the newline flags
\* for glue) and it returns that entry's value; an entry for a different text
\* with the same fingerprint is never used.
CollisionsFiltered ==
    /\ (last.op \in TokenizeOps /\ last.cached)
       => \E i \in 1..Len(last.before.tokenize_cache) :
            /\ last.before.tokenize_cache[i].text = last.args.text
            /\ last.before.tokenize_cache[i].key
               = TokenizeCacheKey_from_options(OptionsOf(last))
            /\ last.before.tokenize_cache[i].tokens = last.ret.value
    /\ (last.op \in AnalyzeOps /\ last.cached)
       => \E i \in 1..Len(last.before.analyze_cache) :
            /\ last.before.analyze_cache[i].text = last.args.text
            /\ last.before.analyze_cache[i].key
               = AnalyzeCacheKey_from_options(last.args.options)
            /\ last.before.analyze_cache[i].candidates = last.ret.value
    /\ (last.op = "split_into_sents" /\ last.cached)
       => \E i \in 1..Len(last.before.split_cache) :
            /\ last.before.split_cache[i].text = last.args.text
            /\ last.before.split_cache[i].match_options = last.args.match_options
            /\ last.before.split_cache[i].boundaries = last.ret.value
    /\ (last.op = "glue_with_options" /\ last.cached)
       => \E i \in 1..Len(last.before.glue_cache) :
            /\ last.before.glue_cache[i].chunks = ChunksOf(last)
            /\ last.before.glue_cache[i].insert_new_lines = last.args.insert_new_lines
            /\ last.before.glue_cache[i].glued_text = last.ret.value[1]

\* A tokenize call missed although the cache held an entry with its options
\* key and its fingerprint: the entry of the other text.
CollisionsFilteredWitness ==
    /\ last.op = "tokenize"
    /\ last.ret.ok
    /\ ~last.cached
    /\ \E i \in 1..Len(last.before.tokenize_cache) :
         /\ last.before.tokenize_cache[i].key = TokenizeCacheKey_from_options(OptionsOf(last))
         /\ last.before.tokenize_cache[i].fingerprint = TextFingerprint_of(last.args.text)
         /\ last.before.tokenize_cache[i].text # last.args.text

\* The number of boundaries between the chunks of a list.
Boundaries(chunks) == IF chunks = <<>> THEN 0 ELSE Len(chunks) - 1

\* C8: glue_with_options given newline flags whose number is not the number
\* of chunk boundaries returns an invalid-argument error, makes no analyzer
\* call and changes no cache; for every chunk list.
LengthMismatchRejected ==
    (/\ last.op = "glue_with_options"
     /\ last.args.insert_new_lines.some
     /\ Len(last.args.insert_new_lines.value) # Boundaries(last.args.chunks))
    => /\ ~last.ret.ok
       /\ last.ret.kind = "InvalidArgument"
       /\ last.calls = 0
       /\ kiwi = last.before

\* The decisions a successful glue call used: those stored with its result,
\* which the call left at the front of the glue cache.
DecisionsOf(k) == k.glue_cache[1].space_insertions

\* C9: after a successful glue or glue_with_options, every boundary whose
\* trimmed left chunk ends with an ASCII letter or digit has its flag true,
\* whatever the scores and wherever the decision came from.
AsciiOverride ==
    (last.op \in GlueOps /\ last.ret.ok /\ last.args.chunks # <<>>)
    => /\ kiwi.glue_cache # <<>>
       /\ kiwi.glue_cache[1].chunks = ChunksOf(last)
       /\ Len(DecisionsOf(kiwi)) = Len(last.args.chunks) - 1
       /\ \A i \in 1..(Len(last.args.chunks) - 1) :
            ends_with_ascii_word(ChunksOf(last)[i]) => DecisionsOf(kiwi)[i]
       /\ (last.op = "glue_with_options" /\ last.args.flags)
          => last.ret.value[2] = Some(DecisionsOf(kiwi))

\* The scores of the two renderings of the pair "a", "가" under the current engine.
ScoresOfPair ==
    score_many_via_native(<<trim(ChunkA) \o <<32>> \o trim(ChunkK),
                            trim(ChunkA) \o trim(ChunkK)>>,
                          with_top_n(kiwi.default_analyze_options, 1), 0).ret.value

\* A glue call scored the pair "a", "가", the unspaced rendering scored higher,
\* and the boundary got its separator all the same.
AsciiOverrideWitness ==
    /\ last.op = "glue_with_options"
    /\ last.ret.ok
    /\ last.calls = 1
    /\ last.args.chunks = <<ChunkA, ChunkK>>
    /\ last.args.flags
    /\ ~f32_ge(ScoresOfPair[1], ScoresOfPair[2])
    /\ last.ret.value[2] = Some(<<TRUE>>)

\* The text composed of the chunks and the decisions: each chunk followed, at a
\* boundary whose decision is true, by a newline when the flag of the boundary
\* asks for one and by a space otherwise.
Composed(chunks, insert_new_lines, decisions) ==
    Flatten([i \in 1..Len(chunks) |->
                chunks[i] \o (IF i < Len(chunks) /\ decisions[i]
                              THEN IF insert_new_lines.some /\ insert_new_lines.value[i]
                                   THEN <<10>> ELSE <<32>>
                              ELSE <<>>)])

\* C10: a successful glue_with_options over one or more chunks returns the
\* trimmed chunks in order with one separator at each boundary decided true
\* and none elsewhere, the separator a newline iff the newline flag of the
\* boundary is given and true; the flags returned on request are the n - 1
\* decisions used.
GlueComposition ==
    (last.op = "glue_with_options" /\ last.ret.ok /\ last.args.chunks # <<>>)
    => /\ kiwi.glue_cache # <<>>
       /\ Len(DecisionsOf(kiwi)) = Len(last.args.chunks) - 1
       /\ last.ret.value[1]
          = Composed(ChunksOf(last), last.args.insert_new_lines, DecisionsOf(kiwi))
       /\ last.ret.value[2]
          = (IF last.args.flags THEN Some(DecisionsOf(kiwi)) ELSE None)

\* Three chunks glued with a boundary left open and a boundary closed by a newline.
GlueCompositionWitness ==
    /\ last.op = "glue_with_options"
    /\ last.ret.ok
    /\ last.args.chunks = <<ChunkK, ChunkA, ChunkK>>
    /\ last.args.insert_new_lines = Some(<<TRUE, TRUE>>)
    /\ last.ret.value[2] = Some(<<FALSE, TRUE>>)
    /\ last.ret.value[1] = <<44032, 97, 10, 44032>>


(***************************************************************************)
(* Libraries that lack optional entry points.  KiwiApi loads every optional *)
(* symbol with load_symbol_optional, so an older native library leaves the  *)
(* field None; the instance is then used the same way.                      *)
(***************************************************************************)
MaxApiOps == 1       \* calls in one behaviour on a library lacking entry points

\* The loaded libraries: each lacks the optional entry points of one group.
Libraries ==
    {EntryPoints \ {"kiwi_analyze_m"},
     EntryPoints \ {"kiwi_split_into_sents", "kiwi_joiner_get_w", "kiwi_set_option_f"},
     EntryPoints \ {"kiwi_new_joiner", "kiwi_set_option", "kiwi_set_global_config",
                    "kiwi_pt_init"},
     EntryPoints \ {"kiwi_joiner_get", "kiwi_get_global_config", "kiwi_ss_size",
                    "kiwi_pt_add_span"}}

InitApi == \E library \in Libraries : Start(MaxApiOps, library)

NextApi ==
    \/ Tokenize
    \/ AnalyzeWithOptions
    \/ AnalyzeManyViaNative
    \/ SplitIntoSents
    \/ TokenizeMany
    \/ Join
    \/ JoinUtf16
    \/ SetGlobalConfig
    \/ SetIntegrateAllomorph
    \/ SetOption
    \/ SetOptionF
    \/ AddReWord
    \/ Glue
    \/ GlueWithOptions

SpecApi == InitApi /\ [][NextApi]_vars

\* The text between the first and the last character that is not whitespace.
Stripped(text) ==
    Let({i \in 1..Len(text) : ~is_whitespace(text[i])}, LAMBDA inked :
        IF inked = {} THEN <<>>
        ELSE SubSeq(text, CHOOSE i \in inked : \A j \in inked : i <= j,
                          CHOOSE i \in inked : \A j \in inked : j <= i))

\* C11: glue (and glue_with_options with no newline flags to check) of no
\* chunk returns the empty string and of one chunk returns that chunk trimmed,
\* without an analyzer call, whether or not kiwi_analyze_m is available and
\* whether or not the analyzer would fail.
GlueDegenerate ==
    (/\ last.op \in GlueOps
     /\ Len(last.args.chunks) <= 1
     /\ last.args.insert_new_lines \in {None, Some(<<>>)})
    => /\ last.ret.ok
       /\ last.calls = 0
       /\ (IF last.op = "glue" THEN last.ret.value ELSE last.ret.value[1])
          = (IF last.args.chunks = <<>> THEN <<>> ELSE Stripped(last.args.chunks[1]))

\* glue of the single chunk "a " on a library without kiwi_analyze_m returns "a".
GlueDegenerateWitness ==
    /\ last.op = "glue"
    /\ "kiwi_analyze_m" \notin api
    /\ last.args.chunks = <<ChunkA>>
    /\ last.ret = Ok(<<97>>)
    /\ last.calls = 0

(***************************************************************************)
(* The analyze entry points under every top_n, on a library with and on a  *)
(* library without kiwi_analyze_m.                                          *)
(***************************************************************************)
MaxTopNOps == 3      \* analyze calls in one behaviour

\* top_n values: zero, one and several.
TopNs == {0, 1, 2}

\* pub fn analyze_top_n(&self, text, top_n)
analyze_top_n(k, text, top_n, fault) ==
    analyze_with_options(k, text, with_top_n(k.default_analyze_options, top_n), fault)

AnalyzeTopN ==
    \E text \in Texts, top_n \in TopNs, fault \in 0..1 :
        Call("analyze_top_n",
             [text |-> text, options |-> with_top_n(kiwi.default_analyze_options, top_n)],
             analyze_top_n(kiwi, text, top_n, fault))

\* analyze_many_via_native with the top_n values above.
AnalyzeManyTopN ==
    \E lines \in Batches, top_n \in TopNs, fault \in 0..1 :
        Call("analyze_many_via_native",
             [lines |-> lines, options |-> with_top_n(kiwi.default_analyze_options, top_n)],
             analyze_many_via_native(kiwi, lines,
                                     with_top_n(kiwi.default_analyze_options, top_n), fault))

InitTopN ==
    \E library \in {EntryPoints, EntryPoints \ {"kiwi_analyze_m"}} :
        Start(MaxTopNOps, library)

NextTopN ==
    \/ AnalyzeTopN
    \/ AnalyzeManyTopN

SpecTopN == InitTopN /\ [][NextTopN]_vars

\* The analyze entry points that take a top_n.
TopNOps == {"analyze_with_options", "analyze_top_n", "analyze_many_via_native"}

\* top_n is zero or more than a C int holds.
BadTopN(options) == options.top_n = 0 \/ options.top_n > C_INT_MAX

\* C19 (as stated): every analyze call with a zero or oversized top_n returns
\* an invalid-argument error, makes no analyzer call and leaves every cache
\* as it was, on every library.
TopNRejectedOnEveryLibrary ==
    (last.op \in TopNOps /\ BadTopN(last.args.options))
    => /\ ~last.ret.ok
       /\ last.ret.kind = "InvalidArgument"
       /\ last.calls = 0
       /\ kiwi = last.before

\* C19 (amended): the same, for analyze_with_options and analyze_top_n on
\* every library and for analyze_many_via_native on a library that has
\* kiwi_analyze_m; without that entry point analyze_many_via_native reports
\* the missing entry point before it looks at top_n, still without an analyzer
\* call or a cache change.
TopNRejected ==
    (last.op \in TopNOps /\ BadTopN(last.args.options))
    => /\ ~last.ret.ok
       /\ last.calls = 0
       /\ kiwi = last.before
       /\ IF last.op = "analyze_many_via_native" /\ "kiwi_analyze_m" \notin api
          THEN last.ret = Err("Api", "kiwi_analyze_m")
          ELSE last.ret.kind = "InvalidArgument"

\* analyze_many_via_native with top_n = 0 is rejected while the analyze cache
\* holds two entries, which stay in their order.
TopNRejectedWitness ==
    /\ last.op = "analyze_many_via_native"
    /\ last.args.options.top_n = 0
    /\ "kiwi_analyze_m" \in api
    /\ Len(last.before.analyze_cache) = 2
    /\ kiwi.analyze_cache = last.before.analyze_cache
    /\ ~last.ret.ok
    /\ last.ret.kind = "InvalidArgument"

\* The optional entry points a call goes through, in the order the code asks
\* for them; a call served without the native library needs none.
Requires(call) ==
    IF call.op = "set_option" THEN <<"kiwi_set_option">>
    ELSE IF call.op = "set_option_f" THEN <<"kiwi_set_option_f">>
    ELSE IF call.op = "set_global_config" THEN <<"kiwi_set_global_config">>
    ELSE IF call.op \in {"set_integrate_allomorph", "set_space_tolerance"}
         THEN <<"kiwi_get_global_config", "kiwi_set_global_config">>
    ELSE IF call.op = "analyze_many_via_native" THEN <<"kiwi_analyze_m">>
    ELSE IF call.op = "split_into_sents"
         THEN <<"kiwi_split_into_sents", "kiwi_ss_size", "kiwi_ss_begin_position",
                "kiwi_ss_end_position">>
    ELSE IF call.op = "join" THEN <<"kiwi_new_joiner", "kiwi_joiner_add", "kiwi_joiner_get">>
    ELSE IF call.op = "join_utf16"
         THEN <<"kiwi_new_joiner", "kiwi_joiner_add", "kiwi_joiner_get", "kiwi_joiner_get_w">>
    ELSE IF /\ call.op \in GlueOps
            /\ Len(call.args.chunks) >= 2
            /\ (call.args.insert_new_lines.some
                => Len(call.args.insert_new_lines.value) = Len(call.args.chunks) - 1)
         THEN <<"kiwi_analyze_m">>
    ELSE <<>>

\* C20: a call that goes through an entry point the library lacks fails; when
\* the missing entry point is the first the call asks for, the error names it;
\* and an error naming a missing entry point is of a kind other than the kind
\* of a failed native call ("Api").
UnsupportedOperation ==
    LET required == Requires(last)
        missing == {i \in DOMAIN required : required[i] \notin api}
    IN /\ missing # {} => ~last.ret.ok
       /\ 1 \in missing => last.ret = [ok |-> FALSE, kind |-> last.ret.kind,
                                       what |-> required[1]]
       /\ (~last.ret.ok /\ last.ret.what \in EntryPoints \ api) => last.ret.kind # "Api"

(***************************************************************************)
(* Sentence segmenter: build_sentences_from_tokens groups the tokens of an *)
(* analysis by sent_position.  Offsets are character offsets; the text is  *)
(* sliced through a map from character index to byte offset.               *)
(***************************************************************************)
MaxTokens == 2       \* tokens in a token list given to the segmenter
MaxPosition == 3     \* largest token position
MaxLength == 2       \* largest token length
MaxSentOps == 1      \* segmenter calls in one behaviour

min(a, b) == IF a < b THEN a ELSE b
max(a, b) == IF a < b THEN b ELSE a

\* for (index, _) in text.char_indices() { map.push(index) }; map.push(text.len())
build_char_to_byte_map(text) ==
    [i \in 1..(Len(text) + 1) |-> Len(as_bytes(SubSeq(text, 1, i - 1)))]

\* &text[map[safe_begin]..map[safe_end]]: the characters that start in the byte range.
slice_char_range(text, map, begin, end) ==
    Let(IF Len(map) = 0 THEN 0 ELSE Len(map) - 1, LAMBDA limit :
    Let(min(begin, limit), LAMBDA safe_begin :
    Let(max(min(end, limit), safe_begin), LAMBDA safe_end :
    Let({i \in 1..Len(text) : map[safe_begin + 1] <= map[i] /\ map[i] < map[safe_end + 1]},
        LAMBDA taken :
        [n \in 1..Cardinality(taken) |->
            text[CHOOSE i \in taken : Cardinality({j \in taken : j <= i}) = n]]))))

\* A faulty end: the position of the token.
token_start(token) == token.position

token_end(token) == token.position + token.length

\* A faulty order of the groups: highest sent_position first.
RECURSIVE descending_keys(_)
descending_keys(keys) ==
    IF keys = {} THEN <<>>
    ELSE Let(CHOOSE k \in keys : \A other \in keys : other <= k, LAMBDA highest :
         <<highest>> \o descending_keys(keys \ {highest}))

\* BTreeMap::into_values visits the keys in ascending order.
RECURSIVE ascending_keys(_)
ascending_keys(keys) ==
    IF keys = {} THEN <<>>
    ELSE Let(CHOOSE k \in keys : \A other \in keys : k <= other, LAMBDA lowest :
         <<lowest>> \o ascending_keys(keys \ {lowest}))

\* grouped.entry(token.sent_position).or_default().push(token)
grouped_tokens(tokens, sent_position) ==
    SelectSeq(tokens, LAMBDA token : token.sent_position = sent_position)

Sentence(text, start, end, tokens, subs) ==
    [text |-> text, start |-> start, end |-> end, tokens |-> tokens, subs |-> subs]

\* The sub-sentence in progress is closed and pushed.
push_sub_sentence(text, map, state, return_tokens) ==
    Append(state.out,
           Sentence(slice_char_range(text, map, state.current_start, state.current_end),
                    state.current_start, state.current_end,
                    IF return_tokens THEN Some(state.current_tokens) ELSE None,
                    None))

\* One step of the loop of build_sub_sentences_from_tokens.
sub_sentence_step(text, map, state, token, return_tokens) ==
    IF token.sub_sent_position = 0
    THEN IF state.current_sub_id # 0
         THEN [state EXCEPT !.out = push_sub_sentence(text, map, state, return_tokens),
                            !.current_tokens = <<>>,
                            !.current_sub_id = 0]
         ELSE state
    ELSE Let(IF state.current_sub_id # token.sub_sent_position
             THEN [state EXCEPT
                     !.out = IF state.current_sub_id # 0
                             THEN push_sub_sentence(text, map, state, return_tokens)
                             ELSE state.out,
                     !.current_tokens = IF state.current_sub_id # 0 THEN <<>>
                                        ELSE state.current_tokens,
                     !.current_sub_id = token.sub_sent_position,
                     !.current_start = token.position]
             ELSE state, LAMBDA opened :
         [opened EXCEPT !.current_end = token_end(token),
                        !.current_tokens = Append(opened.current_tokens, token)])

RECURSIVE sub_sentence_loop(_, _, _, _, _)
sub_sentence_loop(text, map, state, tokens, return_tokens) ==
    IF tokens = <<>> THEN state
    ELSE sub_sentence_loop(text, map,
                           sub_sentence_step(text, map, state, Head(tokens), return_tokens),
                           Tail(tokens), return_tokens)

build_sub_sentences_from_tokens(text, map, sentence_tokens, return_tokens) ==
    Let(sub_sentence_loop(text, map,
                          [out |-> <<>>, current_sub_id |-> 0, current_start |-> 0,
                           current_end |-> 0, current_tokens |-> <<>>],
                          sentence_tokens, return_tokens), LAMBDA state :
        IF state.current_sub_id # 0
        THEN push_sub_sentence(text, map, state, return_tokens)
        ELSE state.out)

\* The sentence built of one group of tokens.
build_sentence(text, map, sentence_tokens, return_tokens, return_sub_sents) ==
    Let(CHOOSE p \in {sentence_tokens[i].position : i \in DOMAIN sentence_tokens} :
            \A i \in DOMAIN sentence_tokens : p <= sentence_tokens[i].position,
        LAMBDA start :
    Let(CHOOSE e \in {token_end(sentence_tokens[i]) : i \in DOMAIN sentence_tokens} :
            \A i \in DOMAIN sentence_tokens : token_end(sentence_tokens[i]) <= e,
        LAMBDA end :
        Sentence(slice_char_range(text, map, start, end), start, end,
                 IF return_tokens THEN Some(sentence_tokens) ELSE None,
                 IF return_sub_sents
                 THEN Some(build_sub_sentences_from_tokens(text, map, sentence_tokens,
                                                           return_tokens))
                 ELSE None)))

build_sentences_from_tokens(text, tokens, return_tokens, return_sub_sents) ==
    IF tokens = <<>> THEN <<>>
    ELSE Let(build_char_to_byte_map(text), LAMBDA map :
         Let(ascending_keys({tokens[i].sent_position : i \in DOMAIN tokens}), LAMBDA keys :
             [n \in 1..Len(keys) |->
                 build_sentence(text, map, grouped_tokens(tokens, keys[n]),
                                return_tokens, return_sub_sents)]))

\* "가 a.": a three-byte character, a space, two ASCII characters.
SentenceText == <<44032, 32, 97, 46>>

\* The tokens of the segmenter's inputs: any position, length and sentence.
SentenceTokens ==
    [position : 0..MaxPosition, length : 1..MaxLength, sent_position : 0..2,
     sub_sent_position : 0..1]

TokenLists == SeqsUpTo(SentenceTokens, MaxTokens)

\* A fresh instance with the arguments of the calls of the behaviour drawn.
Given(budget, args) ==
    /\ kiwi = Kiwi_new
    /\ native = Engine_new
    /\ api = EntryPoints
    /\ last = [op |-> "new", args |-> args, ret |-> Ok("unit"), calls |-> 0,
               cached |-> FALSE, before |-> Kiwi_new]
    /\ ops = budget

InitSentences ==
    \E tokens \in TokenLists, return_tokens \in BOOLEAN, return_sub_sents \in BOOLEAN :
        Given(MaxSentOps,
              [text |-> SentenceText, tokens |-> tokens, return_tokens |-> return_tokens,
               return_sub_sents |-> return_sub_sents])

BuildSentences ==
    Call("build_sentences_from_tokens", last.args,
         Out(kiwi,
             Ok(build_sentences_from_tokens(last.args.text, last.args.tokens,
                                            last.args.return_tokens,
                                            last.args.return_sub_sents)),
             0, FALSE))

NextSentences == BuildSentences

SpecSentences == InitSentences /\ [][NextSentences]_vars

\* The distinct sent_position values of a token list, lowest first.
SentPositions(tokens) ==
    Let({tokens[i].sent_position : i \in DOMAIN tokens}, LAMBDA keys :
        [n \in 1..Cardinality(keys) |->
            CHOOSE k \in keys : Cardinality({other \in keys : other <= k}) = n])

\* C12: the segmenter returns one sentence for each distinct sent_position;
\* each token belongs to the one sentence of its sent_position (whose token
\* list, when returned, is exactly the tokens of that sent_position in input
\* order); the start of a sentence is the least position and its end the
\* greatest position + length of its tokens, so its span covers each of them.
SpanCoverage ==
    last.op = "build_sentences_from_tokens"
    => LET tokens == last.args.tokens
           sentences == last.ret.value
           keys == SentPositions(tokens)
           Members(n) == {i \in DOMAIN tokens : tokens[i].sent_position = keys[n]}
       IN /\ Len(sentences) = Len(keys)
          /\ \A i \in DOMAIN tokens :
                Cardinality({n \in DOMAIN sentences : i \in Members(n)}) = 1
          /\ \A n \in DOMAIN sentences :
                /\ \E i \in Members(n) : sentences[n].start = tokens[i].position
                /\ \E i \in Members(n) :
                      sentences[n].end = tokens[i].position + tokens[i].length
                /\ \A i \in Members(n) :
                      /\ sentences[n].start <= tokens[i].position
                      /\ tokens[i].position + tokens[i].length <= sentences[n].end
                /\ last.args.return_tokens
                   => /\ sentences[n].tokens.some
                      /\ Len(sentences[n].tokens.value) = Cardinality(Members(n))
                      /\ \A m \in DOMAIN sentences[n].tokens.value :
                            sentences[n].tokens.value[m].sent_position = keys[n]

\* Two tokens of one sentence, the longer one first: the sentence ends where
\* the first token ends.
SpanCoverageWitness ==
    /\ last.op = "build_sentences_from_tokens"
    /\ Len(last.args.tokens) = 2
    /\ last.args.tokens[1].sent_position = last.args.tokens[2].sent_position
    /\ last.args.tokens[1].position = 1
    /\ last.args.tokens[1].length = 2
    /\ last.args.tokens[2].position = 0
    /\ last.args.tokens[2].length = 1
    /\ Len(last.ret.value) = 1
    /\ last.ret.value[1].start = 0
    /\ last.ret.value[1].end = 3
    /\ last.ret.value[1].text = <<44032, 32, 97>>

\* Every token of an earlier sentence ends at or before the start of every
\* token of a later sentence.
SentencesApart(tokens) ==
    \A i, j \in DOMAIN tokens :
        tokens[i].sent_position < tokens[j].sent_position
        => tokens[i].position + tokens[i].length <= tokens[j].position

\* The sentences are in ascending sent_position order, one per sent_position.
InSentPositionOrder(tokens, sentences) ==
    /\ Len(sentences) = Len(SentPositions(tokens))
    /\ \A n \in DOMAIN sentences :
          \E i \in DOMAIN tokens :
             /\ tokens[i].sent_position = SentPositions(tokens)[n]
             /\ sentences[n].start <= tokens[i].position
             /\ tokens[i].position + tokens[i].length <= sentences[n].end

\* The spans are sorted by start and no two of them overlap.
SpansSortedAndDisjoint(sentences) ==
    \A m, n \in DOMAIN sentences :
        m < n => /\ sentences[m].start <= sentences[n].start
                 /\ sentences[m].end <= sentences[n].start

\* C13 (as stated): for any token list the sentences are in ascending
\* sent_position order, one per distinct sent_position, and their spans are
\* sorted by start and pairwise disjoint.
SentencesOrderedForAnyTokens ==
    last.op = "build_sentences_from_tokens"
    => /\ InSentPositionOrder(last.args.tokens, last.ret.value)
       /\ SpansSortedAndDisjoint(last.ret.value)

\* C13 (amended): for any token list the sentences are in ascending
\* sent_position order, one per distinct sent_position; their spans are
\* sorted by start and pairwise disjoint exactly when every token of an
\* earlier sentence ends at or before every token of a later sentence.
SentencesOrdered ==
    last.op = "build_sentences_from_tokens"
    => /\ InSentPositionOrder(last.args.tokens, last.ret.value)
       /\ SentencesApart(last.args.tokens) <=> SpansSortedAndDisjoint(last.ret.value)

\* Sentence 2 is given before sentence 0 and lies after it in the text: the
\* sentences come back in sent_position order with disjoint spans.
SentencesOrderedWitness ==
    /\ last.op = "build_sentences_from_tokens"
    /\ Len(last.args.tokens) = 2
    /\ last.args.tokens[1].sent_position = 2
    /\ last.args.tokens[2].sent_position = 0
    /\ SentencesApart(last.args.tokens)
    /\ Len(last.ret.value) = 2
    /\ last.ret.value[1].end <= last.ret.value[2].start
    /\ last.ret.value[1].start = last.args.tokens[2].position

(***************************************************************************)
(* Spacing reconstructor: reconstruct_spaced_text rebuilds the text from   *)
(* the raw text and the tokens of its analysis.  A tag is the sequence of  *)
(* its characters, as a form is.                                           *)
(***************************************************************************)
MaxSpacingOps == 1       \* reconstructor calls in one behaviour

starts_with(value, prefix) ==
    Len(value) >= Len(prefix) /\ SubSeq(value, 1, Len(prefix)) = prefix

starts_with_any(tag, prefixes) == \E prefix \in prefixes : starts_with(tag, prefix)

\* value.chars().filter(|ch| !ch.is_whitespace()).collect()
strip_all_whitespace(value) == SelectSeq(value, LAMBDA ch : ~is_whitespace(ch))

FormHa == <<54616>>      \* "하"
FormJi == <<51648>>      \* "지"

is_space_insertable_target(tag) ==
    \/ starts_with(tag, <<78>>)
    \/ starts_with(tag, <<77>>)
    \/ starts_with(tag, <<73>>)
    \/ starts_with_any(tag, {<<86, 86>>, <<86, 65>>, <<86, 88>>, <<86, 67, 78>>, <<88, 82>>,
                             <<88, 80, 78>>, <<83, 87>>, <<83, 76>>, <<83, 72>>, <<83, 78>>})

is_space_insertable_target_strict(tag) ==
    \/ starts_with(tag, <<77>>)
    \/ starts_with(tag, <<73>>)
    \/ starts_with_any(tag, {<<78, 80>>, <<78, 82>>, <<78, 78, 71>>, <<78, 78, 80>>,
                             <<86, 86>>, <<86, 65>>, <<86, 88>>, <<86, 67, 78>>, <<88, 82>>,
                             <<88, 80, 78>>, <<83, 87>>, <<83, 72>>})

is_space_insertable_prev(tag) ==
    Let(IF tag = <<>> THEN 0 ELSE tag[1], LAMBDA first :
        \/ first \notin {83, 85, 87, 88}
        \/ starts_with(tag, <<88, 82>>)
        \/ starts_with(tag, <<88, 83>>)
        \/ starts_with(tag, <<83, 69>>)
        \/ starts_with(tag, <<83, 72>>))

\* A faulty rule that asks for a space before every token.
always_insert_space(prev_tag, tag, form) == TRUE

\* A faulty rule without the carve-out for the auxiliary verbs 하 and 지.
insert_space_by_tags(prev_tag, tag, form) ==
    \/ is_space_insertable_prev(prev_tag) /\ is_space_insertable_target(tag)
    \/ prev_tag = <<83, 78>> /\ is_space_insertable_target_strict(tag)
    \/ /\ starts_with_any(prev_tag, {<<83, 70>>, <<83, 80>>, <<83, 76>>})
       /\ is_space_insertable_target_strict(tag)

should_insert_space_between(prev_tag, tag, form) ==
    IF tag = <<86, 88>> /\ (form = FormHa \/ form = FormJi) THEN FALSE
    ELSE \/ is_space_insertable_prev(prev_tag) /\ is_space_insertable_target(tag)
         \/ prev_tag = <<83, 78>> /\ is_space_insertable_target_strict(tag)
         \/ /\ starts_with_any(prev_tag, {<<83, 70>>, <<83, 80>>, <<83, 76>>})
            /\ is_space_insertable_target_strict(tag)

\* A faulty rule that strips the gap before endings and particles only.
strip_gap_before_endings(prev_tag, tag, form) ==
    starts_with(tag, <<69>>) \/ starts_with(tag, <<74>>)

should_strip_gap(prev_tag, tag, form) ==
    \/ starts_with(tag, <<69>>)
    \/ starts_with(tag, <<74>>)
    \/ starts_with(tag, <<88, 83>>)
    \/ tag = <<86, 88>> /\ (form = FormHa \/ form = FormJi)
    \/ prev_tag = Some(<<83, 78>>) /\ tag = <<78, 78, 66>>

\* A faulty token text that always copies the raw slice.
raw_token_text(raw, map, tokens, index, from, end) ==
    strip_all_whitespace(slice_char_range(raw, map, from, end))

\* A faulty token text that always copies the form.
form_token_text(raw, map, tokens, index, from, end) == tokens[index].form

\* The text pushed for the token: the form of an NN token the next token does
\* not overlap, and otherwise the raw slice without its whitespace.
token_text(raw, map, tokens, index, from, end) ==
    IF /\ starts_with(tokens[index].tag, <<78, 78>>)
       /\ (index + 1 > Len(tokens) \/ end <= tokens[index + 1].position)
    THEN tokens[index].form
    ELSE strip_all_whitespace(slice_char_range(raw, map, from, end))

\* One pass of the loop over the tokens.  state.pushes records, for the token,
\* what each push_str / push added: the gap, the space and the token text.
reconstruct_step(raw, map, text_len, tokens, index, state) ==
    Let(tokens[index], LAMBDA token :
    Let(min(token.position, text_len), LAMBDA start :
    Let(max(min(token.position + token.length, text_len), start), LAMBDA end :
    Let(IF state.last < start
        THEN IF should_strip_gap(state.prev_tag, token.tag, token.form)
             THEN strip_all_whitespace(slice_char_range(raw, map, state.last, start))
             ELSE slice_char_range(raw, map, state.last, start)
        ELSE <<>>, LAMBDA gap_text :
    Let(IF state.last < start THEN start ELSE state.last, LAMBDA from :
    Let(state.out \o gap_text, LAMBDA with_gap :
    Let(IF /\ state.prev_tag.some
           /\ should_insert_space_between(state.prev_tag.value, token.tag, token.form)
           /\ with_gap # <<>>
           /\ ~is_whitespace(with_gap[Len(with_gap)])
        THEN <<32>> ELSE <<>>, LAMBDA space :
    Let(IF from < end THEN token_text(raw, map, tokens, index, from, end) ELSE <<>>,
        LAMBDA text :
        [out |-> with_gap \o space \o text,
         last |-> end,
         prev_tag |-> Some(token.tag),
         pushes |-> Append(state.pushes,
                           [gap |-> gap_text, space |-> space, text |-> text,
                            from |-> state.last, start |-> start, end |-> end,
                            before |-> state.out])]))))))))

RECURSIVE reconstruct_loop(_, _, _, _, _, _)
reconstruct_loop(raw, map, text_len, tokens, index, state) ==
    IF index > Len(tokens) THEN state
    ELSE reconstruct_loop(raw, map, text_len, tokens, index + 1,
                          reconstruct_step(raw, map, text_len, tokens, index, state))

\* The loop of reconstruct_spaced_text with its record of pushes.
reconstruct_pushes(raw, tokens) ==
    Let(build_char_to_byte_map(raw), LAMBDA map :
        reconstruct_loop(raw, map, IF Len(map) = 0 THEN 0 ELSE Len(map) - 1, tokens, 1,
                         [out |-> <<>>, last |-> 0, prev_tag |-> None, pushes |-> <<>>]))

reconstruct_spaced_text(raw, tokens) ==
    IF tokens = <<>> THEN raw
    ELSE Let(build_char_to_byte_map(raw), LAMBDA map :
         Let(IF Len(map) = 0 THEN 0 ELSE Len(map) - 1, LAMBDA text_len :
         Let(reconstruct_pushes(raw, tokens), LAMBDA state :
             IF state.last < text_len
             THEN state.out \o slice_char_range(raw, map, state.last, text_len)
             ELSE state.out)))

\* The kinds of token of the inputs: a tag with a one-character form.
Kind(tag, form) == [tag |-> tag, form |-> form]

Kinds ==
    {Kind(<<78, 78, 71>>, <<44032>>),         \* NNG 가
     Kind(<<78, 78, 66>>, <<44060>>),         \* NNB 개
     Kind(<<78, 80>>, <<45208>>),             \* NP 나
     Kind(<<74, 75, 79>>, <<47484>>),         \* JKO 를
     Kind(<<69, 70>>, <<45796>>),             \* EF 다
     Kind(<<88, 83, 86>>, <<54616>>),         \* XSV 하
     Kind(<<88, 82>>, <<44648>>),             \* XR 깨
     Kind(<<86, 88>>, FormHa),                \* VX 하
     Kind(<<86, 88>>, FormJi),                \* VX 지
     Kind(<<86, 88>>, <<50506>>),             \* VX 않
     Kind(<<86, 86>>, <<47673>>),             \* VV 먹
     Kind(<<83, 78>>, <<49>>),                \* SN 1
     Kind(<<83, 70>>, <<46>>),                \* SF .
     Kind(<<83, 76>>, <<97>>),                \* SL a
     Kind(<<83, 80>>, <<44>>),                \* SP ,
     Kind(<<83, 87>>, <<64>>),                \* SW @
     Kind(<<83, 69>>, <<8230>>),              \* SE …
     Kind(<<83, 72>>, <<28450>>),             \* SH 漢
     Kind(<<77, 65, 71>>, <<51096>>),         \* MAG 잘
     Kind(<<73, 67>>, <<50500>>),             \* IC 아
     Kind(<<85, 78>>, <<120>>),               \* UN x
     Kind(<<87, 95, 85, 82, 76>>, <<117>>)}   \* W_URL u

Token(kind, at, chars) ==
    [form |-> kind.form, tag |-> kind.tag, position |-> at, length |-> chars]

\* The raw text between two tokens: nothing, a space, or a period and a space.
Gaps == {<<>>, <<32>>, <<46, 32>>}
Leads == {<<>>, <<32>>}
Shapes == {"apart", "empty_first", "overlap"}

\* A raw text and its two tokens laid out in it: one after the other with
\* the gap between them, the first one empty, or both on the same character.
Laid(first, second, lead, gap, shape) ==
    IF shape = "apart"
    THEN [raw |-> lead \o first.form \o gap \o second.form \o <<32, 33>>,
          tokens |-> <<Token(first, Len(lead), 1),
                       Token(second, Len(lead) + 1 + Len(gap), 1)>>]
    ELSE IF shape = "empty_first"
    THEN [raw |-> lead \o gap \o second.form \o <<32, 33>>,
          tokens |-> <<Token(first, Len(lead), 0),
                       Token(second, Len(lead) + Len(gap), 1)>>]
    ELSE [raw |-> lead \o first.form \o gap \o <<33>>,
          tokens |-> <<Token(first, Len(lead), 1), Token(second, Len(lead), 1)>>]

\* raw "사과 를먹었다" with (사과,NNG,0,2) (를,JKO,3,1) (먹었다,VV,4,3), and its
\* reconstruction "사과를 먹었다" with the tokens where they then are.
ExampleRaw == <<49324, 44284, 32, 47484, 47673, 50632, 45796>>
ExampleSpaced == <<49324, 44284, 47484, 32, 47673, 50632, 45796>>
ExampleTokens(at, then) ==
    <<[form |-> <<49324, 44284>>, tag |-> <<78, 78, 71>>, position |-> 0, length |-> 2],
      [form |-> <<47484>>, tag |-> <<74, 75, 79>>, position |-> at, length |-> 1],
      [form |-> <<47673, 50632, 45796>>, tag |-> <<86, 86>>, position |-> then,
       length |-> 3]>>

SpacingInputs ==
    {Laid(first, second, lead, gap, shape) :
        first \in Kinds, second \in Kinds, lead \in Leads, gap \in Gaps, shape \in Shapes}
    \cup {[raw |-> lead \o kind.form \o <<32, 33>>, tokens |-> <<Token(kind, Len(lead), 1)>>] :
            kind \in Kinds, lead \in Gaps}
    \cup {[raw |-> ExampleRaw, tokens |-> ExampleTokens(3, 4)],
          [raw |-> ExampleSpaced, tokens |-> ExampleTokens(2, 4)],
          [raw |-> ExampleRaw, tokens |-> <<>>]}

InitSpacing == \E input \in SpacingInputs : Given(MaxSpacingOps, input)

Reconstruct ==
    Call("reconstruct_spaced_text", last.args,
         Out(kiwi, Ok(reconstruct_spaced_text(last.args.raw, last.args.tokens)), 0, FALSE))

NextSpacing == Reconstruct

SpecSpacing == InitSpacing /\ [][NextSpacing]_vars

\* The tokens are in non-decreasing position order.
InPositionOrder(tokens) ==
    \A i \in 1..(Len(tokens) - 1) : tokens[i].position <= tokens[i + 1].position

\* Where a token starts and ends within a text of the given length.
StartIn(token, text_len) == min(token.position, text_len)
EndIn(token, text_len) ==
    max(min(token.position + token.length, text_len), StartIn(token, text_len))

\* The characters of the raw text from offset a up to offset b.
RawBetween(raw, a, b) == SubSeq(raw, a + 1, b)

\* The first n characters of a tag, or the whole tag when it is shorter.
Prefix(tag, n) == SubSeq(tag, 1, min(n, Len(tag)))

NoWhitespace(text) == \A i \in DOMAIN text : ~is_whitespace(text[i])
WithoutWhitespace(text) == SelectSeq(text, LAMBDA ch : ~is_whitespace(ch))

IsAuxiliaryHaJi(token) == token.tag = <<86, 88>> /\ token.form \in {<<54616>>, <<51648>>}

\* The gap before token i loses its whitespace: the tag starts with E, J or
\* XS, or the token is VX 하 / 지, or it is NNB right after SN.
GapStripped(tokens, i) ==
    \/ tokens[i].tag[1] \in {69, 74}
    \/ Len(tokens[i].tag) >= 2 /\ tokens[i].tag[1] = 88 /\ tokens[i].tag[2] = 83
    \/ IsAuxiliaryHaJi(tokens[i])
    \/ i > 1 /\ tokens[i - 1].tag = <<83, 78>> /\ tokens[i].tag = <<78, 78, 66>>

\* The end of the token before token i, where the gap before token i begins.
GapStart(raw, tokens, i) == IF i = 1 THEN 0 ELSE EndIn(tokens[i - 1], Len(raw))

\* The record of pushes of the recorded call.
PushesOf(call) == reconstruct_pushes(call.args.raw, call.args.tokens).pushes

\* The text of all the pushes of the recorded call, in order.
Pushed(call) ==
    Flatten([i \in DOMAIN PushesOf(call) |->
                PushesOf(call)[i].gap \o PushesOf(call)[i].space \o PushesOf(call)[i].text])

\* C14: with the tokens in non-decreasing position order, the raw text from
\* the end of the token before to the start of a token is pushed as it is,
\* and without its whitespace when the tag of the token starts with E, J or
\* XS, the token is VX 하 or 지, or it is NNB right after SN; the result is
\* the pushes in order followed by the rest of the raw text, and the example
\* "사과 를먹었다" reconstructs to "사과를 먹었다".
GapRule ==
    (/\ last.op = "reconstruct_spaced_text"
     /\ last.args.tokens # <<>>
     /\ InPositionOrder(last.args.tokens))
    => LET raw == last.args.raw
           tokens == last.args.tokens
       IN /\ \A i \in DOMAIN tokens :
                LET from == GapStart(raw, tokens, i)
                    start == StartIn(tokens[i], Len(raw))
                IN PushesOf(last)[i].gap
                   = (IF from >= start THEN <<>>
                      ELSE IF GapStripped(tokens, i)
                           THEN WithoutWhitespace(RawBetween(raw, from, start))
                           ELSE RawBetween(raw, from, start))
          /\ last.ret.value
             = Pushed(last) \o RawBetween(raw, EndIn(tokens[Len(tokens)], Len(raw)), Len(raw))
          /\ (raw = ExampleRaw /\ tokens = ExampleTokens(3, 4))
             => last.ret.value = ExampleSpaced

\* The example of the specification: the gap before the particle is removed.
GapRuleWitness ==
    /\ last.op = "reconstruct_spaced_text"
    /\ last.args.raw = ExampleRaw
    /\ last.args.tokens = ExampleTokens(3, 4)
    /\ PushesOf(last)[2].gap = <<>>
    /\ last.ret = Ok(ExampleSpaced)

\* The insertion table of the tags.
InsertablePrev(tag) ==
    \/ tag[1] \notin {83, 85, 87, 88}
    \/ Prefix(tag, 2) \in {<<88, 82>>, <<88, 83>>, <<83, 69>>, <<83, 72>>}

InsertableNext(tag) ==
    \/ tag[1] \in {78, 77, 73}
    \/ Prefix(tag, 2) \in {<<86, 86>>, <<86, 65>>, <<86, 88>>, <<88, 82>>, <<83, 87>>,
                              <<83, 76>>, <<83, 72>>, <<83, 78>>}
    \/ Prefix(tag, 3) \in {<<86, 67, 78>>, <<88, 80, 78>>}

StrictNext(tag) ==
    \/ tag[1] \in {77, 73}
    \/ Prefix(tag, 2) \in {<<78, 80>>, <<78, 82>>, <<86, 86>>, <<86, 65>>, <<86, 88>>,
                              <<88, 82>>, <<83, 87>>, <<83, 72>>}
    \/ Prefix(tag, 3) \in {<<78, 78, 71>>, <<78, 78, 80>>, <<86, 67, 78>>, <<88, 80, 78>>}

InsertionTable(prev_tag, tag) ==
    \/ InsertablePrev(prev_tag) /\ InsertableNext(tag)
    \/ prev_tag = <<83, 78>> /\ StrictNext(tag)
    \/ Prefix(prev_tag, 2) \in {<<83, 70>>, <<83, 80>>, <<83, 76>>} /\ StrictNext(tag)

\* C15: no space is pushed before a token VX 하 or 지, whatever the tag before
\* it; before any other token one space is pushed iff there is a token before
\* it, the two tags satisfy the insertion table, and the output so far (the
\* gap included) is non-empty and does not end in whitespace.
SpaceRule ==
    last.op = "reconstruct_spaced_text"
    => LET tokens == last.args.tokens
       IN \A i \in DOMAIN tokens :
             LET push == PushesOf(last)[i]
                 so_far == push.before \o push.gap
             IN /\ push.space \in {<<>>, <<32>>}
                /\ IsAuxiliaryHaJi(tokens[i]) => push.space = <<>>
                /\ ~IsAuxiliaryHaJi(tokens[i])
                   => (push.space = <<32>>
                       <=> /\ i > 1
                           /\ InsertionTable(tokens[i - 1].tag, tokens[i].tag)
                           /\ so_far # <<>>
                           /\ ~is_whitespace(so_far[Len(so_far)]))

\* VX 하 right after a noun gets no space, VX 않 right after a noun gets one.
SpaceRuleWitness ==
    /\ last.op = "reconstruct_spaced_text"
    /\ Len(last.args.tokens) = 2
    /\ last.args.tokens[1].tag = <<78, 78, 71>>
    /\ last.args.tokens[2].tag = <<86, 88>>
    /\ last.args.tokens[2].form = <<50506>>
    /\ last.args.tokens[2].position = 1
    /\ last.args.raw = <<44032, 50506, 32, 33>>
    /\ last.ret = Ok(<<44032, 32, 50506, 32, 33>>)

\* The raw text already has the spacing the rules produce for its tokens: the
\* tokens follow one another inside the text, each is the text it covers (an
\* NN token has that text as its form) and holds no whitespace, a gap the gap
\* rule strips holds no whitespace, and where the insertion rule asks for a
\* space the text before the token ends in whitespace.
WellSpaced(raw, tokens) ==
    /\ \A i \in DOMAIN tokens :
          /\ tokens[i].position + tokens[i].length <= Len(raw)
          /\ i > 1 => tokens[i - 1].position + tokens[i - 1].length <= tokens[i].position
          /\ NoWhitespace(RawBetween(raw, tokens[i].position,
                                     tokens[i].position + tokens[i].length))
          /\ (tokens[i].length > 0 /\ Prefix(tokens[i].tag, 2) = <<78, 78>>)
             => tokens[i].form = RawBetween(raw, tokens[i].position,
                                            tokens[i].position + tokens[i].length)
          /\ GapStripped(tokens, i)
             => NoWhitespace(RawBetween(raw, GapStart(raw, tokens, i), tokens[i].position))
          /\ (/\ i > 1
              /\ ~IsAuxiliaryHaJi(tokens[i])
              /\ InsertionTable(tokens[i - 1].tag, tokens[i].tag)
              /\ tokens[i].position > 0)
             => is_whitespace(raw[tokens[i].position])

\* C16: when the raw text already has the spacing the gap and insertion rules
\* produce for its tokens, reconstruct_spaced_text returns the raw text
\* unchanged; so space, which reconstructs a text from the tokens of its own
\* analysis, returns a well-spaced text as it is, a second time as the first.
SpacingFixedPoint ==
    (/\ last.op = "reconstruct_spaced_text"
     /\ WellSpaced(last.args.raw, last.args.tokens))
    => last.ret = Ok(last.args.raw)

\* "사과를 먹었다", the reconstruction of the example, comes back unchanged.
SpacingFixedPointWitness ==
    /\ last.op = "reconstruct_spaced_text"
    /\ last.args.raw = ExampleSpaced
    /\ last.args.tokens = ExampleTokens(2, 4)
    /\ WellSpaced(last.args.raw, last.args.tokens)
    /\ last.ret = Ok(ExampleSpaced)

(***************************************************************************)
(* Construction and destruction of analyzer instances by several threads.  *)
(*                                                                         *)
(* Under SpecInit the variables hold the state of the whole process:       *)
(*   kiwi    each thread's position and the number of Kiwi instances it    *)
(*           owns (Kiwi holds a raw handle and RefCells, so an instance    *)
(*           stays on the thread that built it);                           *)
(*   native  KIWI_INIT_LOCK (0 when free, else the thread holding the      *)
(*           guard) and the native entry point each thread is inside;      *)
(*   api     the optional entry points of the loaded library;              *)
(*   last    the last step taken; ops the operations still to start.       *)
(***************************************************************************)
MaxInitOps == 4

Threads == {1, 2}

Unlocked == 0

NotInside == "none"

Thread_new == [pc |-> "idle", instances |-> 0]

Process_new == [lock |-> Unlocked, inside |-> [t \in Threads |-> NotInside]]

InitThreads ==
    \E library \in {EntryPoints, EntryPoints \cup {"kiwi_init"}} :
        /\ kiwi = [t \in Threads |-> Thread_new]
        /\ native = Process_new
        /\ api = library
        /\ last = [op |-> "new", args |-> [thread |-> 0], ret |-> Ok("unit"), calls |-> 0,
                   cached |-> FALSE, before |-> [t \in Threads |-> Thread_new]]
        /\ ops = MaxInitOps

\* One step of thread t: its position, its instances, the lock and the entry
\* point it is inside after the step.
Step(t, op, pc, instances, lock, inside, ret) ==
    /\ kiwi' = [kiwi EXCEPT ![t] = [pc |-> pc, instances |-> instances]]
    /\ native' = [lock |-> lock, inside |-> [native.inside EXCEPT ![t] = inside]]
    /\ last' = [op |-> op, args |-> [thread |-> t], ret |-> ret, calls |-> 0,
                cached |-> FALSE, before |-> kiwi]
    /\ UNCHANGED api

\* The first step of an operation takes one unit of the budget.
Begin(t) ==
    /\ kiwi[t].pc = "idle"
    /\ ops > 0
    /\ ops' = ops - 1

At(t, pc) ==
    /\ kiwi[t].pc = pc
    /\ UNCHANGED ops

\* KIWI_INIT_LOCK.lock(): blocks while another guard is alive.
lock_free == native.lock = Unlocked

\* KiwiBuilder::build_with_typo_and_default_options -------------------------
BuildLock(t) ==
    /\ Begin(t)
    /\ lock_free
    /\ Step(t, "build", "build_locked", kiwi[t].instances, t, NotInside, Ok("unit"))

BuildCall(t) ==
    /\ At(t, "build_locked")
    /\ Step(t, "build", "build_native", kiwi[t].instances, native.lock,
            "kiwi_builder_build", Ok("unit"))

\* The native call returns a handle or null; on null the function returns the
\* error and the guard is dropped with it.
BuildReturn(t) ==
    /\ At(t, "build_native")
    /\ \E null \in BOOLEAN :
        IF null
        THEN Step(t, "build", "idle", kiwi[t].instances, Unlocked, NotInside,
                  Err("Api", "kiwi_builder_build returned a null handle"))
        ELSE Step(t, "build", "build_tags", kiwi[t].instances, native.lock, NotInside,
                  Ok("unit"))

\* build_tag_name_cache runs under the guard; the guard is dropped on return.
BuildDone(t) ==
    /\ At(t, "build_tags")
    /\ Step(t, "build", "idle", kiwi[t].instances + 1, Unlocked, NotInside, Ok("kiwi"))

\* Kiwi::init_direct --------------------------------------------------------
InitDirectUnavailable(t) ==
    /\ Begin(t)
    /\ ~require_optional_api("kiwi_init").ok
    /\ Step(t, "init_direct", "idle", kiwi[t].instances, native.lock, NotInside,
            require_optional_api("kiwi_init"))

InitDirectLock(t) ==
    /\ Begin(t)
    /\ require_optional_api("kiwi_init").ok
    /\ lock_free
    /\ Step(t, "init_direct", "init_locked", kiwi[t].instances, t, NotInside, Ok("unit"))

InitDirectCall(t) ==
    /\ At(t, "init_locked")
    /\ Step(t, "init_direct", "init_native", kiwi[t].instances, native.lock, "kiwi_init",
            Ok("unit"))

InitDirectReturn(t) ==
    /\ At(t, "init_native")
    /\ \E null \in BOOLEAN :
        IF null
        THEN Step(t, "init_direct", "idle", kiwi[t].instances, Unlocked, NotInside,
                  Err("Api", "kiwi_init returned a null handle"))
        ELSE Step(t, "init_direct", "init_tags", kiwi[t].instances, native.lock, NotInside,
                  Ok("unit"))

InitDirectDone(t) ==
    /\ At(t, "init_tags")
    /\ Step(t, "init_direct", "idle", kiwi[t].instances + 1, Unlocked, NotInside, Ok("kiwi"))

\* impl Drop for Kiwi: the caches are cleared and kiwi_close is called; the
\* function takes no guard.
DropCall(t) ==
    /\ Begin(t)
    /\ kiwi[t].instances > 0
    /\ Step(t, "drop", "drop_native", kiwi[t].instances, native.lock, "kiwi_close",
            Ok("unit"))

DropReturn(t) ==
    /\ At(t, "drop_native")
    /\ Step(t, "drop", "idle", kiwi[t].instances - 1, native.lock, NotInside, Ok("unit"))

\* An analysis call on an instance of the thread: kiwi_analyze, no guard.
AnalyzeCall(t) ==
    /\ Begin(t)
    /\ kiwi[t].instances > 0
    /\ Step(t, "analyze", "analyze_native", kiwi[t].instances, native.lock, "kiwi_analyze",
            Ok("unit"))

AnalyzeReturn(t) ==
    /\ At(t, "analyze_native")
    /\ Step(t, "analyze", "idle", kiwi[t].instances, native.lock, NotInside, Ok("unit"))

NextThreads ==
    \E t \in Threads :
        \/ BuildLock(t)
        \/ BuildCall(t)
        \/ BuildReturn(t)
        \/ BuildDone(t)
        \/ InitDirectUnavailable(t)
        \/ InitDirectLock(t)
        \/ InitDirectCall(t)
        \/ InitDirectReturn(t)
        \/ InitDirectDone(t)
        \/ DropCall(t)
        \/ DropReturn(t)
        \/ AnalyzeCall(t)
        \/ AnalyzeReturn(t)

SpecInit == InitThreads /\ [][NextThreads]_vars

\* The threads inside one of the given native entry points.
Inside(entries) == {t \in Threads : native.inside[t] \in entries}

ConstructionCalls == {"kiwi_builder_build", "kiwi_init"}

DestructionCalls == {"kiwi_close"}

\* C17: at most one thread at a time is inside kiwi_builder_build, kiwi_init
\* or kiwi_close; a thread inside one of them holds the process-wide init
\* lock; a thread inside an analysis call does not hold it.
InitLockSerializes ==
    /\ Cardinality(Inside(ConstructionCalls \cup DestructionCalls)) <= 1
    /\ \A t \in Inside(ConstructionCalls \cup DestructionCalls) : native.lock = t
    /\ \A t \in Inside({"kiwi_analyze"}) : native.lock # t

\* What the code does keep: construction calls are serialized under the lock,
\* and neither analysis nor destruction takes the lock.
ConstructionSerialized ==
    /\ Cardinality(Inside(ConstructionCalls)) <= 1
    /\ \A t \in Inside(ConstructionCalls) : native.lock = t
    /\ \A t \in Inside({"kiwi_analyze"} \cup DestructionCalls) : native.lock # t

\* A thread is inside kiwi_close while another is inside kiwi_builder_build.
CloseDuringBuild ==
    /\ Inside(DestructionCalls) # {}
    /\ Inside({"kiwi_builder_build"}) # {}

(***************************************************************************)
(* Lifetime of the loaded native library.                                  *)
(*                                                                         *)
(* Under SpecLibrary the variables hold one loaded library and the objects *)
(* that share it:                                                          *)
(*   kiwi    how many live objects of each kind hold an Arc<LoadedLibrary>;*)
(*   native  the Arc's strong count, whether DEFAULT_LIBRARY caches a      *)
(*           clone, whether the dynamic library is still open, and whether *)
(*           any native call was made through it after it was closed;      *)
(*   api     the optional entry points; last the last operation;           *)
(*   ops     the operations still to run.                                  *)
(***************************************************************************)
MaxLibOps == 5

Holders ==
    {"KiwiLibrary", "KiwiBuilder", "Kiwi", "KiwiTypo", "MorphemeSet", "Pretokenized",
     "KiwiJoiner", "KiwiAnalyzeResult"}

\* The entry point each holder's Drop calls on its handle; KiwiLibrary has no
\* handle of its own.
close_entry(holder) ==
    CASE holder = "KiwiBuilder" -> "kiwi_builder_close"
      [] holder = "Kiwi" -> "kiwi_close"
      [] holder = "KiwiTypo" -> "kiwi_typo_close"
      [] holder = "MorphemeSet" -> "kiwi_morphset_close"
      [] holder = "Pretokenized" -> "kiwi_pt_close"
      [] holder = "KiwiJoiner" -> "kiwi_joiner_close"
      [] holder = "KiwiAnalyzeResult" -> "kiwi_res_close"
      [] OTHER -> NotInside

\* A faulty release that closes the library whenever any holder is dropped.
every_holder(strong) == TRUE

\* Arc::drop: the holder that takes the strong count from 1 to 0 drops the
\* LoadedLibrary.
last_holder(strong) == strong = 1

\* Arc::clone
Arc_clone(lib) == [lib EXCEPT !.strong = @ + 1]

\* Arc::drop, and with the last holder Drop for DynamicLibrary: platform_close.
Arc_drop(lib) ==
    [lib EXCEPT !.strong = @ - 1,
                !.open = IF last_holder(lib.strong) THEN FALSE ELSE @]

\* A call through an entry of lib.api; remembered when the library is closed.
native_call(lib) == [lib EXCEPT !.through_closed = @ \/ ~lib.open]

NoHolders == [h \in Holders |-> 0]

Add(holders, holder) == [holders EXCEPT ![holder] = @ + 1]

Remove(holders, holder) == [holders EXCEPT ![holder] = @ - 1]

\* KiwiLibrary::load (from_library: Arc::new) or KiwiLibrary::load_default,
\* which also keeps a clone in DEFAULT_LIBRARY.
Library_new(default) ==
    [strong |-> IF default THEN 2 ELSE 1, cache |-> default, open |-> TRUE,
     through_closed |-> FALSE]

InitLibrary ==
    \E default \in BOOLEAN :
        /\ kiwi = Add(NoHolders, "KiwiLibrary")
        /\ native = Library_new(default)
        /\ api = EntryPoints \cup {"kiwi_typo_init", "kiwi_new_morphset"}
        /\ last = [op |-> "load", args |-> [holder |-> "KiwiLibrary"], ret |-> Ok("unit"),
                   calls |-> 0, cached |-> default, before |-> NoHolders]
        /\ ops = MaxLibOps

Library(op, holder, holders, lib, ret, calls) ==
    /\ ops > 0
    /\ kiwi' = holders
    /\ native' = lib
    /\ last' = [op |-> op, args |-> [holder |-> holder], ret |-> ret, calls |-> calls,
                cached |-> FALSE, before |-> kiwi]
    /\ ops' = ops - 1
    /\ UNCHANGED api

\* A constructor that calls `entry` through the library of an `owner` object
\* and, unless the handle is null, returns a `holder` with a clone of the Arc.
Create(op, owner, holder, entry) ==
    /\ kiwi[owner] > 0
    /\ \E null \in BOOLEAN :
        IF null
        THEN Library(op, holder, kiwi, native_call(native),
                     Err("Api", <<entry, "returned a null handle">>), 1)
        ELSE Library(op, holder, Add(kiwi, holder), Arc_clone(native_call(native)),
                     Ok(holder), 1)

\* KiwiLibrary::load_default when DEFAULT_LIBRARY holds the library.
LoadDefault ==
    /\ native.cache
    /\ Library("load_default", "KiwiLibrary", Add(kiwi, "KiwiLibrary"), Arc_clone(native),
               Ok("KiwiLibrary"), 0)

\* #[derive(Clone)] on KiwiLibrary
CloneLibrary ==
    /\ kiwi["KiwiLibrary"] > 0
    /\ Library("clone", "KiwiLibrary", Add(kiwi, "KiwiLibrary"), Arc_clone(native),
               Ok("KiwiLibrary"), 0)

\* KiwiLibrary::builder
Builder == Create("builder", "KiwiLibrary", "KiwiBuilder", "kiwi_builder_init")

\* KiwiBuilder::build: the builder is consumed; its Drop runs after the Kiwi
\* took its clone, or alone when the build failed.
BuildFrom ==
    /\ kiwi["KiwiBuilder"] > 0
    /\ \E null \in BOOLEAN :
        IF null
        THEN Library("build", "Kiwi", Remove(kiwi, "KiwiBuilder"),
                     Arc_drop(native_call(native_call(native))),
                     Err("Api", "kiwi_builder_build returned a null handle"), 2)
        ELSE Library("build", "Kiwi", Add(Remove(kiwi, "KiwiBuilder"), "Kiwi"),
                     Arc_drop(native_call(Arc_clone(native_call(native)))), Ok("Kiwi"), 2)

\* KiwiTypo::new, from a library or from an instance.
Typo ==
    \E owner \in {"KiwiLibrary", "Kiwi"} :
        /\ require_optional_api("kiwi_typo_init").ok
        /\ Create("typo", owner, "KiwiTypo", "kiwi_typo_init")

\* Kiwi::new_morphset
NewMorphset ==
    /\ require_optional_api("kiwi_new_morphset").ok
    /\ Create("new_morphset", "Kiwi", "MorphemeSet", "kiwi_new_morphset")

\* Kiwi::new_pretokenized
NewPretokenized ==
    /\ require_optional_api("kiwi_pt_init").ok
    /\ Create("new_pretokenized", "Kiwi", "Pretokenized", "kiwi_pt_init")

\* Kiwi::prepare_joiner
PrepareJoiner ==
    /\ require_optional_api("kiwi_new_joiner").ok
    /\ Create("prepare_joiner", "Kiwi", "KiwiJoiner", "kiwi_new_joiner")

\* Kiwi::analyze_result_with_overrides: the result handle of a call in
\* progress.
AnalyzeResult ==
    /\ kiwi["Kiwi"] > kiwi["KiwiAnalyzeResult"]
    /\ Create("analyze", "Kiwi", "KiwiAnalyzeResult", "kiwi_analyze")

\* A call on a live object of any kind with a handle.
Use ==
    \E holder \in Holders \ {"KiwiLibrary"} :
        /\ kiwi[holder] > 0
        /\ Library("use", holder, kiwi, native_call(native), Ok("unit"), 1)

\* Drop of one object: its Drop closes its handle through self.inner.api,
\* then the field inner is dropped. An instance borrowed by a result handle
\* in progress cannot be dropped.
DropHolder ==
    \E holder \in Holders :
        /\ kiwi[holder] > 0
        /\ holder = "Kiwi" => kiwi["Kiwi"] > kiwi["KiwiAnalyzeResult"]
        /\ IF holder = "KiwiLibrary"
           THEN Library("drop", holder, Remove(kiwi, holder), Arc_drop(native),
                        Ok("unit"), 0)
           ELSE Library("drop", holder, Remove(kiwi, holder),
                        Arc_drop(native_call(native)), Ok("unit"), 1)

NextLibrary ==
    \/ LoadDefault
    \/ CloneLibrary
    \/ Builder
    \/ BuildFrom
    \/ Typo
    \/ NewMorphset
    \/ NewPretokenized
    \/ PrepareJoiner
    \/ AnalyzeResult
    \/ Use
    \/ DropHolder

SpecLibrary == InitLibrary /\ [][NextLibrary]_vars

RECURSIVE SumOver(_, _)
SumOver(holders, kinds) ==
    IF kinds = {} THEN 0
    ELSE LET kind == CHOOSE k \in kinds : TRUE
         IN holders[kind] + SumOver(holders, kinds \ {kind})

LiveHolders == SumOver(kiwi, Holders)

\* C18: the library is closed only once no holder of any kind is left,
\* whatever the order of the drops, and no native call has been made through
\* the library after it was closed.
LibraryLifetime ==
    /\ ~native.open => LiveHolders = 0
    /\ ~native.through_closed

\* The last holder, an analyzer instance that outlived its library object and
\* its builder, is dropped: kiwi_close runs and then the library is closed.
LibraryLifetimeWitness ==
    /\ last.op = "drop"
    /\ last.args.holder = "Kiwi"
    /\ last.calls = 1
    /\ SumOver(last.before, Holders) = 1
    /\ ~native.open
    /\ ~native.through_closed

(***************************************************************************)
(* Native multi-text calls whose results fail for some lines.  Under       *)
(* SpecBatch one batch call is made on a fresh instance or on one whose    *)
(* caches already hold the results of an earlier call; the fault of the    *)
(* call is part of its recorded arguments.                                 *)
(***************************************************************************)
MaxBatchOps == 1

\* Any subset of the lines failing, with or without a failing call.
ItemFaults == 0..(2 ^ (MaxBatch + 1) - 1)
ScoreFaults == 0..(2 ^ (2 * (MaxChunks - 1) + 1) - 1)

InitBatch ==
    /\ native = Engine_new
    /\ api = EntryPoints
    /\ kiwi \in {Kiwi_new,
                 analyze_with_options(Kiwi_new, T1, AnalyzeOptions_default, 0).kiwi,
                 tokenize(Kiwi_new, T1, 0).kiwi,
                 glue(Kiwi_new, <<ChunkA, ChunkK>>, 0).kiwi}
    /\ last = [op |-> "new", args |-> <<>>, ret |-> Ok("unit"), calls |-> 0,
               cached |-> FALSE, before |-> Kiwi_new]
    /\ ops = MaxBatchOps

BatchAnalyze ==
    \E lines \in Batches, options \in OptionsDomain, fault \in ItemFaults :
        Call("analyze_many_via_native",
             [lines |-> lines, options |-> options, fault |-> fault],
             analyze_many_via_native(kiwi, lines, options, fault))

BatchTokenize ==
    \E lines \in Batches, fault \in ItemFaults :
        Call("tokenize_many", [lines |-> lines, fault |-> fault],
             tokenize_many(kiwi, lines, fault))

BatchGlue ==
    \E chunks \in ChunkLists, fault \in ScoreFaults :
        Call("glue_with_options",
             [chunks |-> chunks, insert_new_lines |-> None, flags |-> TRUE,
              fault |-> fault],
             glue_with_options(kiwi, chunks, None, TRUE, fault))

NextBatch ==
    \/ BatchAnalyze
    \/ BatchTokenize
    \/ BatchGlue

SpecBatch == InitBatch /\ [][NextBatch]_vars

BatchOps == {"analyze_many_via_native", "tokenize_many", "glue_with_options"}

\* The number of texts handed to the native call of the recorded batch call.
ItemsOf(call) ==
    IF call.op = "glue_with_options"
    THEN Len(glue_lookup_pairs(call.before, ChunksOf(call), 1, <<>>, <<>>,
                               [i \in 1..(Len(call.args.chunks) - 1) |-> FALSE]).candidates)
    ELSE Len(call.args.lines)

\* The lines of the recorded call whose result could not be read.
FailedItems(call) == {id \in 1..ItemsOf(call) : (call.args.fault \div (2 ^ id)) % 2 = 1}

FirstFailed(call) == CHOOSE id \in FailedItems(call) : \A other \in FailedItems(call) : id <= other

\* The error recorded for line id.
ItemError(call, id) ==
    Err("Api", (IF call.op = "glue_with_options" THEN "kiwi_res_prob " ELSE "kiwi_res ")
               \o ToString(id))

\* The recorded call reached the native multi-text call and a line failed.
BatchItemFailed ==
    /\ last.op \in BatchOps
    /\ last.calls = 1
    /\ FailedItems(last) # {}

\* C21 as stated: whenever a line of a native multi-text call fails, the call
\* returns the error recorded for the first failing line.
BatchFirstError ==
    BatchItemFailed => last.ret = ItemError(last, FirstFailed(last))

\* C21: when a line of a native multi-text call fails the operation returns no
\* per-item results; it returns the error of the native call itself when that
\* call reports a failure, and otherwise the error recorded for the first
\* failing line, whatever the later lines did.
BatchFailure ==
    BatchItemFailed
    => /\ ~last.ret.ok
       /\ last.args.fault % 2 = 0 => last.ret = ItemError(last, FirstFailed(last))
       /\ last.args.fault % 2 = 1
          => /\ last.ret.kind = "Api"
             /\ last.ret # ItemError(last, FirstFailed(last))

\* Both lines of a batch fail and the error of the first one is returned.
BatchFailureWitness ==
    /\ last.op = "analyze_many_via_native"
    /\ last.calls = 1
    /\ FailedItems(last) = {1, 2}
    /\ last.args.fault % 2 = 0
    /\ last.ret = ItemError(last, 1)

(***************************************************************************)
(* The order in which a glue call consults its caches and the analyzer.    *)
(* Under SpecGlue one glue_with_options call is made on a fresh instance   *)
(* or on one that has already glued a chunk list; the call's pair lookups  *)
(* and the texts it had scored are recorded with it.                       *)
(***************************************************************************)
MaxGlueOps == 1

InitGlue ==
    /\ native = Engine_new
    /\ api = EntryPoints
    /\ kiwi \in {Kiwi_new}
                \cup {glue_with_options(Kiwi_new, chunks, None, TRUE, 0).kiwi :
                        chunks \in ChunkLists}
    /\ last = [op |-> "new", args |-> <<>>, ret |-> Ok("unit"), calls |-> 0,
               cached |-> FALSE, before |-> Kiwi_new, pair_lookups |-> 0, scored |-> <<>>]
    /\ ops = MaxGlueOps

GlueTraced ==
    \E chunks \in ChunkLists, insert_new_lines \in NewLineFlags, fault \in 0..1 :
        Let(glue_with_options(kiwi, chunks, insert_new_lines, TRUE, fault), LAMBDA out :
            /\ ops > 0
            /\ kiwi' = out.kiwi
            /\ last' = [op |-> "glue_with_options",
                        args |-> [chunks |-> chunks, insert_new_lines |-> insert_new_lines,
                                  flags |-> TRUE, fault |-> fault],
                        ret |-> out.ret, calls |-> out.calls, cached |-> out.cached,
                        before |-> kiwi, pair_lookups |-> out.pair_lookups,
                        scored |-> out.scored]
            /\ ops' = ops - 1
            /\ UNCHANGED <<native, api>>)

NextGlue == GlueTraced

SpecGlue == InitGlue /\ [][NextGlue]_vars

\* The recorded glue call got as far as its caches: it had chunks, and newline
\* flags of the right length if any.
GlueReachedCaches ==
    /\ last.op = "glue_with_options"
    /\ last.args.chunks # <<>>
    /\ last.args.insert_new_lines.some
       => Len(last.args.insert_new_lines.value) = Len(last.args.chunks) - 1

\* The glue cache held the whole sequence with the same newline flags.
WholeSequenceCached(call) ==
    \E i \in DOMAIN call.before.glue_cache :
        /\ call.before.glue_cache[i].chunks = ChunksOf(call)
        /\ call.before.glue_cache[i].insert_new_lines = call.args.insert_new_lines

PairCached(cache, left, right) ==
    \E i \in DOMAIN cache : cache[i].left = left /\ cache[i].right = right

\* The boundaries of the call whose pair the glue-pair cache did not hold.
MissedPairs(call) ==
    {i \in 1..(Len(call.args.chunks) - 1) :
        ~PairCached(call.before.glue_pair_cache, ChunksOf(call)[i], ChunksOf(call)[i + 1])}

\* The spaced and the unspaced rendering of every missed pair, in order.
RECURSIVE Renderings(_, _, _)
Renderings(chunks, missed, index) ==
    IF index > Len(chunks) - 1 THEN <<>>
    ELSE (IF index \in missed
          THEN <<chunks[index] \o <<32>> \o chunks[index + 1],
                 chunks[index] \o chunks[index + 1]>>
          ELSE <<>>)
         \o Renderings(chunks, missed, index + 1)

\* C22: a glue call that hits the glue cache with its whole sequence makes no
\* glue-pair lookup and no analyzer call; on a miss it looks up every adjacent
\* pair, has exactly the renderings of the missed pairs scored in at most one
\* native call (none when no pair missed), and on success holds every newly
\* decided pair in the glue-pair cache and the result with its decisions at
\* the front of the glue cache.
GlueBatching ==
    GlueReachedCaches
    => IF WholeSequenceCached(last)
       THEN /\ last.cached
            /\ last.pair_lookups = 0
            /\ last.calls = 0
            /\ last.scored = <<>>
            /\ kiwi.glue_pair_cache = last.before.glue_pair_cache
       ELSE /\ last.pair_lookups = Len(last.args.chunks) - 1
            /\ last.calls = (IF MissedPairs(last) = {} THEN 0 ELSE 1)
            /\ last.scored = Renderings(ChunksOf(last), MissedPairs(last), 1)
            /\ last.ret.ok
               => /\ \A i \in MissedPairs(last) :
                        \E j \in DOMAIN kiwi.glue_pair_cache :
                            /\ kiwi.glue_pair_cache[j].left = ChunksOf(last)[i]
                            /\ kiwi.glue_pair_cache[j].right = ChunksOf(last)[i + 1]
                            /\ kiwi.glue_pair_cache[j].insert_space
                               = last.ret.value[2].value[i]
                  /\ kiwi.glue_cache # <<>>
                  /\ kiwi.glue_cache[1].chunks = ChunksOf(last)
                  /\ kiwi.glue_cache[1].insert_new_lines = last.args.insert_new_lines
                  /\ kiwi.glue_cache[1].glued_text = last.ret.value[1]
                  /\ kiwi.glue_cache[1].space_insertions = last.ret.value[2].value

\* A sequence that is not cached as a whole, with one pair cached and one
\* missed: two lookups, one native call scoring the two renderings of the
\* missed pair.
GlueBatchingWitness ==
    /\ GlueReachedCaches
    /\ ~WholeSequenceCached(last)
    /\ Len(last.args.chunks) = 3
    /\ Cardinality(MissedPairs(last)) = 1
    /\ last.pair_lookups = 2
    /\ last.calls = 1
    /\ Len(last.scored) = 2
    /\ last.ret.ok

\* The same sequence again: served from the glue cache.
GlueWholeHit ==
    /\ GlueReachedCaches
    /\ WholeSequenceCached(last)
    /\ Len(last.args.chunks) = 3
    /\ last.cached

(***************************************************************************)
(* Sub-sentences.  Under SpecSubs the tokens of one sentence, up to        *)
(* MaxSubTokens of them with sub_sent_position 0, 1 or 2 at any positions, *)
(* are segmented with sub-sentences requested.                             *)
(***************************************************************************)
MaxSubTokens == 3

SubTokens == [position : 0..2, length : 1..2, sent_position : {0}, sub_sent_position : 0..2]

InitSubs ==
    \E tokens \in SeqsUpTo(SubTokens, MaxSubTokens), return_tokens \in BOOLEAN :
        Given(MaxSentOps,
              [text |-> SentenceText, tokens |-> tokens, return_tokens |-> return_tokens,
               return_sub_sents |-> TRUE])

BuildSubSentences ==
    Call("build_sub_sentences_from_tokens", last.args,
         Out(kiwi,
             Ok(build_sentences_from_tokens(last.args.text, last.args.tokens,
                                            last.args.return_tokens,
                                            last.args.return_sub_sents)),
             0, FALSE))

NextSubs == BuildSubSentences

SpecSubs == InitSubs /\ [][NextSubs]_vars

\* The maximal runs <<a, b>> of consecutive tokens with one non-zero
\* sub_sent_position.
Runs(tokens) ==
    {run \in (DOMAIN tokens) \X (DOMAIN tokens) :
        /\ run[1] <= run[2]
        /\ tokens[run[1]].sub_sent_position # 0
        /\ \A i \in run[1]..run[2] :
              tokens[i].sub_sent_position = tokens[run[1]].sub_sent_position
        /\ run[1] > 1
           => tokens[run[1] - 1].sub_sent_position # tokens[run[1]].sub_sent_position
        /\ run[2] < Len(tokens)
           => tokens[run[2] + 1].sub_sent_position # tokens[run[1]].sub_sent_position}

\* The runs in token order.
RECURSIVE RunsInOrder(_)
RunsInOrder(runs) ==
    IF runs = {} THEN <<>>
    ELSE Let(CHOOSE run \in runs : \A other \in runs : run[1] <= other[1], LAMBDA first :
         <<first>> \o RunsInOrder(runs \ {first}))

SubsRequested ==
    /\ last.op = "build_sub_sentences_from_tokens"
    /\ last.args.tokens # <<>>

SubsOf(call) == call.ret.value[1].subs.value

\* The subs are the runs, in token order, each holding the tokens of its run
\* and no subs of its own.
SubsAreRuns(call) ==
    Let(RunsInOrder(Runs(call.args.tokens)), LAMBDA runs :
        /\ Len(SubsOf(call)) = Len(runs)
        /\ \A j \in DOMAIN runs :
              /\ SubsOf(call)[j].subs = None
              /\ SubsOf(call)[j].tokens
                 = (IF call.args.return_tokens
                    THEN Some(SubSeq(call.args.tokens, runs[j][1], runs[j][2]))
                    ELSE None))

\* Every sub covers the tokens of its run.
SubsCoverRuns(call) ==
    Let(RunsInOrder(Runs(call.args.tokens)), LAMBDA runs :
        \A j \in DOMAIN runs : \A i \in runs[j][1]..runs[j][2] :
            /\ j <= Len(SubsOf(call))
            /\ SubsOf(call)[j].start <= call.args.tokens[i].position
            /\ token_end(call.args.tokens[i]) <= SubsOf(call)[j].end)

\* The subs are ordered by start offset and do not overlap.
SubsApart(call) ==
    \A j \in DOMAIN SubsOf(call) : \A later \in DOMAIN SubsOf(call) :
        j < later => /\ SubsOf(call)[j].start <= SubsOf(call)[later].start
                     /\ SubsOf(call)[j].end <= SubsOf(call)[later].start

\* C23: with sub-sentences requested, the subs of a sentence are exactly the
\* maximal contiguous runs of its tokens with equal non-zero
\* sub_sent_position, each with subs = None and a span covering the tokens of
\* its run, ordered by start offset and not overlapping.
SubSentenceGrouping ==
    SubsRequested => /\ SubsAreRuns(last)
                     /\ SubsCoverRuns(last)
                     /\ SubsApart(last)

\* Every token ends at or before the start of the next one.
TokensApart(tokens) ==
    \A i \in DOMAIN tokens :
        i > 1 => token_end(tokens[i - 1]) <= tokens[i].position

\* What the code does keep: the subs are the runs for every token list; each
\* spans from the start of the first token of its run to the end of the last;
\* for tokens in position order and apart, the spans cover the runs and lie
\* apart in order.
SubSentenceRuns ==
    SubsRequested
    => /\ SubsAreRuns(last)
       /\ Let(RunsInOrder(Runs(last.args.tokens)), LAMBDA runs :
              \A j \in DOMAIN runs :
                  /\ SubsOf(last)[j].start = last.args.tokens[runs[j][1]].position
                  /\ SubsOf(last)[j].end = token_end(last.args.tokens[runs[j][2]]))
       /\ TokensApart(last.args.tokens) => SubsCoverRuns(last) /\ SubsApart(last)

\* Two runs separated by a token of no sub-sentence, tokens apart.
SubSentenceRunsReached ==
    /\ SubsRequested
    /\ Len(last.args.tokens) = 3
    /\ TokensApart(last.args.tokens)
    /\ last.args.tokens[2].sub_sent_position = 0
    /\ Len(SubsOf(last)) = 2

(***************************************************************************)
(* Cache capacities under batch calls.                                     *)
(*                                                                         *)
(* SpecCapacity runs the fills of SpecLRU and, on a fresh, a once-filled   *)
(* or a full cache, one batch call of fewer or more lines than the cache   *)
(* it feeds can hold.                                                      *)
(***************************************************************************)
Over == 2       \* a batch holds up to capacity + Over lines

\* n filler texts, the first one FillText(start + 1).
FillLines(start, n) == [i \in 1..n |-> FillText(start + i)]

\* The batch starts on the texts already cached or behind them.
BatchStarts == {0, Filled}

BatchSizes(capacity) == {capacity - 1, capacity + 1, capacity + Over}

FillTokenizeMany ==
    /\ last.op \in {"new", "tokenize"}
    /\ Filled \in {0, 1, TOKENIZE_CACHE_CAPACITY}
    /\ \E start \in BatchStarts, n \in BatchSizes(TOKENIZE_CACHE_CAPACITY), fault \in 0..1 :
        Call("tokenize_many", [lines |-> FillLines(start, n)],
             tokenize_many(kiwi, FillLines(start, n), fault))

FillAnalyzeMany ==
    /\ last.op \in {"new", "analyze"}
    /\ Filled \in {0, 1, ANALYZE_CACHE_CAPACITY}
    /\ \E start \in BatchStarts, n \in BatchSizes(ANALYZE_CACHE_CAPACITY), fault \in 0..1 :
        Call("analyze_many_via_native",
             [lines |-> FillLines(start, n), options |-> kiwi.default_analyze_options],
             analyze_many_via_native(kiwi, FillLines(start, n),
                                     kiwi.default_analyze_options, fault))

NextCapacity ==
    \/ FillTokenize
    \/ FillAnalyze
    \/ FillSplit
    \/ FillGlue
    \/ FillGluePair
    \/ FillJoin
    \/ FillTokenizeMany
    \/ FillAnalyzeMany

SpecCapacity == InitLRU /\ [][NextCapacity]_vars

WithinCapacity(k) ==
    /\ Len(k.join_cache) <= JOIN_CACHE_CAPACITY
    /\ Len(k.tokenize_cache) <= TOKENIZE_CACHE_CAPACITY
    /\ Len(k.analyze_cache) <= ANALYZE_CACHE_CAPACITY
    /\ Len(k.split_cache) <= SPLIT_CACHE_CAPACITY
    /\ Len(k.glue_cache) <= GLUE_CACHE_CAPACITY
    /\ Len(k.glue_pair_cache) <= GLUE_PAIR_CACHE_CAPACITY

NoEntries(k) ==
    /\ k.join_cache = <<>>
    /\ k.tokenize_cache = <<>>
    /\ k.analyze_cache = <<>>
    /\ k.split_cache = <<>>
    /\ k.glue_cache = <<>>
    /\ k.glue_pair_cache = <<>>

\* The instance after each of the first j inserts of a batch's loop
\*   for (text, result) in lines.iter().zip(out.iter()) { insert(..) }
\* is the instance the batch of the first j lines leaves.
DuringTokenizeMany(call, j) ==
    insert_all_tokenize(call.before, Take(call.args.lines, j),
                        TokenizeCacheKey_from_options(
                            with_top_n(call.before.default_analyze_options, 1)),
                        Take(call.ret.value, j))

DuringAnalyzeMany(call, j) ==
    insert_all_analyze(call.before, Take(call.args.lines, j),
                       AnalyzeCacheKey_from_options(call.args.options),
                       Take(call.ret.value, j))

Inserting(call) ==
    /\ call.op \in {"tokenize_many", "analyze_many_via_native"}
    /\ call.ret.ok
    /\ call.calls = 1

\* C24: no cache ever holds more entries than its capacity, after every call
\* and after every insert inside a batch call of more lines than the
\* capacity; right after construction every cache is empty.
CapacityBound ==
    /\ WithinCapacity(kiwi)
    /\ last.op = "new" => NoEntries(kiwi)
    /\ (Inserting(last) /\ last.op = "tokenize_many")
       => /\ \A j \in 0..Len(last.args.lines) : WithinCapacity(DuringTokenizeMany(last, j))
          /\ kiwi = DuringTokenizeMany(last, Len(last.args.lines))
    /\ (Inserting(last) /\ last.op = "analyze_many_via_native")
       => /\ \A j \in 0..Len(last.args.lines) : WithinCapacity(DuringAnalyzeMany(last, j))
          /\ kiwi = DuringAnalyzeMany(last, Len(last.args.lines))

\* A full tokenize cache took a batch of more lines than it holds and is
\* exactly full.
CapacityBoundWitness ==
    /\ Inserting(last)
    /\ last.op = "tokenize_many"
    /\ Len(last.before.tokenize_cache) = TOKENIZE_CACHE_CAPACITY
    /\ Len(last.args.lines) > TOKENIZE_CACHE_CAPACITY
    /\ Len(kiwi.tokenize_cache) = TOKENIZE_CACHE_CAPACITY

(***************************************************************************)
(* Batch calls against single calls.                                       *)
(***************************************************************************)
BatchOfOne(call) ==
    /\ call.op = "analyze_many_via_native"
    /\ call.ret.ok
    /\ call.args.options.top_n = 1

\* What analyze_with_options returns for the text on the instance k.
SingleCandidates(k, text, options) == analyze_with_options(k, text, options, 0).ret

\* C25: with top_n = 1, analyze_many_via_native returns for each text the
\* candidates analyze_with_options returns for it on the same instance, with
\* or without regex rules and whatever the analyze cache holds; and a single
\* analyze call returns what it would return had no batch call filled the
\* analyze cache before it.
BatchSingleEquivalence ==
    /\ BatchOfOne(last)
       => /\ Len(last.ret.value) = Len(last.args.lines)
          /\ \A i \in 1..Len(last.args.lines) :
                Ok(last.ret.value[i])
                    = SingleCandidates(last.before, last.args.lines[i], last.args.options)
    /\ (last.op \in AnalyzeOps /\ last.ret.ok) => last.ret = Uncached(last)

\* Without regex rules the batch call agrees with the single call.
BatchSingleWithoutRules ==
    (BatchOfOne(last) /\ last.before.re_word_rules = <<>>)
    => /\ Len(last.ret.value) = Len(last.args.lines)
       /\ \A i \in 1..Len(last.args.lines) :
             Ok(last.ret.value[i])
                 = SingleCandidates(last.before, last.args.lines[i], last.args.options)

(***************************************************************************)
(* The join cache and failing joins.                                       *)
(***************************************************************************)
JoinFailed(call) ==
    /\ call.op \in {"join", "join_utf16"}
    /\ ~call.ret.ok

Entries(deque) == {deque[i] : i \in 1..Len(deque)}

\* Whether the call found its morphs and lm_search in the join cache.
JoinHit(call) == join_position(call.before, call.args.morphs, call.args.lm_search) # 0

\* C27: a join or join_utf16 call that returns an error leaves the join cache
\* with the entries it had before the call.
JoinCacheUnchangedOnError ==
    JoinFailed(last) => Entries(kiwi.join_cache) = Entries(last.before.join_cache)

\* A failing call that misses the join cache leaves it as it was; a failing
\* call that hits loses exactly the hit entry.
JoinErrorOnMiss ==
    JoinFailed(last)
    => IF JoinHit(last)
       THEN kiwi.join_cache
                = remove(last.before.join_cache,
                         join_position(last.before, last.args.morphs, last.args.lm_search))
       ELSE kiwi.join_cache = last.before.join_cache

(***************************************************************************)
(* The inference caches and failing calls.                                 *)
(***************************************************************************)
InferenceOps ==
    TokenizeOps \cup AnalyzeOps \cup GlueOps
        \cup {"split_into_sents", "tokenize_many", "analyze_many_via_native"}

\* An inference call that did not return from its cache and failed.
InferenceFailed(call) ==
    /\ call.op \in InferenceOps
    /\ ~call.cached
    /\ ~call.ret.ok

\* No cache of `after` has an entry that `before` has not.
NoEntryAdded(before, after) ==
    /\ Entries(after.join_cache) \subseteq Entries(before.join_cache)
    /\ Entries(after.tokenize_cache) \subseteq Entries(before.tokenize_cache)
    /\ Entries(after.analyze_cache) \subseteq Entries(before.analyze_cache)
    /\ Entries(after.split_cache) \subseteq Entries(before.split_cache)
    /\ Entries(after.glue_cache) \subseteq Entries(before.glue_cache)
    /\ Entries(after.glue_pair_cache) \subseteq Entries(before.glue_pair_cache)

\* C26 as stated: an inference or batch call that misses and fails adds no
\* entry to any cache.
NoCachingOnFailure == InferenceFailed(last) => NoEntryAdded(last.before, kiwi)

\* tokenize_many runs line by line when regex rules are active or the library
\* has no kiwi_analyze_m.
PerLine(call) ==
    /\ call.op = "tokenize_many"
    /\ call.before.re_word_rules # <<>> \/ "kiwi_analyze_m" \notin api

TokenizeManyKey(call) ==
    TokenizeCacheKey_from_options(with_top_n(call.before.default_analyze_options, 1))

\* The entry a successful tokenize of the line on an instance with empty
\* caches stores.
LineEntry(call, text) ==
    Head(tokenize(clear_inference_caches(call.before), text, 0).kiwi.tokenize_cache)

\* C26, as the code has it: a failing call adds no entry, except that a
\* failing per-line tokenize_many keeps the entries of the lines it tokenized
\* before the failure, each with the tokens of its line; some line of the
\* batch is left without an entry, so the same call misses again.
NoFailedEntryCached ==
    InferenceFailed(last)
    => IF PerLine(last)
       THEN /\ NoEntryAdded([last.before EXCEPT !.tokenize_cache = <<>>],
                            [kiwi EXCEPT !.tokenize_cache = <<>>])
            /\ \A entry \in Entries(kiwi.tokenize_cache)
                              \ Entries(last.before.tokenize_cache) :
                  \E i \in 1..Len(last.args.lines) :
                      entry = LineEntry(last, last.args.lines[i])
            /\ \E i \in 1..Len(last.args.lines) :
                  ~lookup_tokenize_cache(kiwi, last.args.lines[i],
                                         TokenizeManyKey(last)).ret.some
       ELSE NoEntryAdded(last.before, kiwi)

\* A tokenize call missed, the analyzer was called and failed, and the text is
\* still not cached.
NoFailedEntryCachedWitness ==
    /\ last.op = "tokenize"
    /\ InferenceFailed(last)
    /\ last.calls = 1
    /\ last.before.tokenize_cache # <<>>
    /\ kiwi.tokenize_cache = last.before.tokenize_cache

\* A per-line tokenize_many failed on its second line and kept the first.
FailedBatchKeptLine ==
    /\ PerLine(last)
    /\ InferenceFailed(last)
    /\ Len(kiwi.tokenize_cache) = Len(last.before.tokenize_cache) + 1

(***************************************************************************)
(* Failing configuration mutators.                                         *)
(*                                                                         *)
(* SpecMutators starts from an instance that has already served calls, on  *)
(* the full library or on one that lacks optional entry points, and runs   *)
(* one mutator.                                                            *)
(***************************************************************************)
MaxMutatorOps == 1

\* The instance after one successful call of each cached operation.
Warm(first) ==
    Let(tokenize(first, T1, 0).kiwi, LAMBDA tokenized :
    Let(analyze(tokenized, T1, 0).kiwi, LAMBDA analyzed :
    Let(split_into_sents(analyzed, T1, KIWI_MATCH_ALL, 0).kiwi, LAMBDA split :
    Let(glue(split, <<ChunkA, ChunkK>>, 0).kiwi, LAMBDA glued :
        join(glued, Morphs1, FALSE, FALSE).kiwi))))

InitMutators ==
    /\ native = Engine_new
    /\ api \in Libraries \cup {EntryPoints}
    /\ kiwi \in {Kiwi_new,
                 Warm(Kiwi_new),
                 Warm(add_re_word(Kiwi_new, <<120>>, TagNNP).kiwi),
                 Warm(set_default_analyze_options(
                          Kiwi_new,
                          with_match_options(AnalyzeOptions_default, KIWI_MATCH_ALL)).kiwi)}
    /\ last = [op |-> "new", args |-> <<>>, ret |-> Ok("unit"), calls |-> 0,
               cached |-> FALSE, before |-> Kiwi_new]
    /\ ops = MaxMutatorOps

NextMutators ==
    \/ SetGlobalConfig
    \/ SetIntegrateAllomorph
    \/ SetSpaceTolerance
    \/ SetOption
    \/ SetOptionF
    \/ SetDefaultAnalyzeOptions
    \/ AddReWord
    \/ ClearReWords

SpecMutators == InitMutators /\ [][NextMutators]_vars

MutatorFailed(call) ==
    /\ call.op \in Mutators
    /\ ~call.ret.ok

\* C28: a mutator that returns an error leaves the six caches, the regex rule
\* list and the default analyze options as they were before the call.
MutatorFailureKeepsState ==
    MutatorFailed(last)
    => /\ kiwi.join_cache = last.before.join_cache
       /\ kiwi.tokenize_cache = last.before.tokenize_cache
       /\ kiwi.analyze_cache = last.before.analyze_cache
       /\ kiwi.split_cache = last.before.split_cache
       /\ kiwi.glue_cache = last.before.glue_cache
       /\ kiwi.glue_pair_cache = last.before.glue_pair_cache
       /\ kiwi.re_word_rules = last.before.re_word_rules
       /\ kiwi.default_analyze_options = last.before.default_analyze_options

NonEmptyCaches(k) ==
    /\ k.join_cache # <<>>
    /\ k.tokenize_cache # <<>>
    /\ k.analyze_cache # <<>>
    /\ k.split_cache # <<>>
    /\ k.glue_cache # <<>>
    /\ k.glue_pair_cache # <<>>

\* The engine reported an error to set_option on an instance with a regex
\* rule and an entry in each cache.
MutatorFailureWitness ==
    /\ last.op = "set_option"
    /\ last.ret = Err("Api", "kiwi_set_option returned an error")
    /\ NonEmptyCaches(last.before)
    /\ last.before.re_word_rules # <<>>
    /\ NonEmptyCaches(kiwi)

\* add_re_word was given a pattern that does not compile.
InvalidRegexKeepsState ==
    /\ last.op = "add_re_word"
    /\ ~last.ret.ok
    /\ last.ret.kind = "InvalidArgument"
    /\ NonEmptyCaches(kiwi)

\* A mutator whose entry point the library lacks.
UnavailableMutatorKeepsState ==
    /\ last.op = "set_option_f"
    /\ ~last.ret.ok
    /\ "kiwi_set_option_f" \notin api
    /\ kiwi.tokenize_cache # <<>>

(***************************************************************************)
(* What reconstruct_spaced_text keeps of the raw text.                     *)
(*                                                                         *)
(* SpecContent draws a raw text of letters, spaces and periods and up to   *)
(* two tokens anywhere inside it; an NN token has the form the analyzer    *)
(* gives it, its raw slice without whitespace, any other token a form of   *)
(* its own.                                                                *)
(***************************************************************************)
MaxRaw == 3             \* characters of the raw text
MaxSpan == 2            \* characters of one token
MaxContentOps == 1

RawChars == {44032, 32, 46}     \* 가, a space, a period

ContentKinds ==
    {Kind(<<78, 78, 71>>, <<44032>>),         \* NNG
     Kind(<<74, 75, 79>>, <<47484>>),         \* JKO 를
     Kind(<<86, 88>>, FormHa)}                \* VX 하

\* The token of the kind over raw[at .. at + chars).
TokenOver(raw, kind, at, chars) ==
    [form |-> IF starts_with(kind.tag, <<78, 78>>)
              THEN SelectSeq(SubSeq(raw, at + 1, at + chars),
                             LAMBDA ch : ~is_whitespace(ch))
              ELSE kind.form,
     tag |-> kind.tag, position |-> at, length |-> chars]

\* The spans of up to MaxSpan characters inside the text.
SpansOver(raw) ==
    {span \in (0..Len(raw)) \X (0..MaxSpan) : span[1] + span[2] <= Len(raw)}

TokensOver(raw) ==
    {TokenOver(raw, kind, span[1], span[2]) : kind \in ContentKinds, span \in SpansOver(raw)}

ContentInputs ==
    {[raw |-> raw, tokens |-> tokens] :
        raw \in SeqsUpTo(RawChars, MaxRaw),
        tokens \in {<<>>}}
    \cup UNION {{[raw |-> raw, tokens |-> <<first>>] : first \in TokensOver(raw)} :
                    raw \in SeqsUpTo(RawChars, MaxRaw)}
    \cup UNION {{[raw |-> raw, tokens |-> <<first, second>>] :
                    first \in TokensOver(raw), second \in TokensOver(raw)} :
                    raw \in SeqsUpTo(RawChars, MaxRaw)}

InitContent == \E input \in ContentInputs : Given(MaxContentOps, input)

ReconstructContent ==
    Call("reconstruct_spaced_text", last.args,
         Out(kiwi, Ok(reconstruct_spaced_text(last.args.raw, last.args.tokens)), 0, FALSE))

NextContent == ReconstructContent

SpecContent == InitContent /\ [][NextContent]_vars

\* The tokens are in position order, lie inside the text and do not overlap,
\* and an NN token's form is its raw slice without whitespace.
TokensFit(raw, tokens) ==
    /\ InPositionOrder(tokens)
    /\ \A i \in DOMAIN tokens :
          /\ tokens[i].position + tokens[i].length <= Len(raw)
          /\ i > 1 => tokens[i - 1].position + tokens[i - 1].length <= tokens[i].position
          /\ Prefix(tokens[i].tag, 2) = <<78, 78>>
             => tokens[i].form
                    = WithoutWhitespace(RawBetween(raw, tokens[i].position,
                                                   tokens[i].position + tokens[i].length))

\* Where the last token ends; 0 without tokens.
LastEnd(tokens) ==
    IF tokens = <<>> THEN 0
    ELSE tokens[Len(tokens)].position + tokens[Len(tokens)].length

Suffix(text, n) == SubSeq(text, Len(text) - n + 1, Len(text))

\* C29: for tokens in position order that lie apart inside the text, with the
\* form of every NN token its raw slice without whitespace, the output
\* without whitespace is the raw text without whitespace, and the output ends
\* with the raw text after the last token as it is.
ContentPreserved ==
    (/\ last.op = "reconstruct_spaced_text"
     /\ TokensFit(last.args.raw, last.args.tokens))
    => /\ WithoutWhitespace(last.ret.value) = WithoutWhitespace(last.args.raw)
       /\ Len(last.ret.value) >= Len(last.args.raw) - LastEnd(last.args.tokens)
       /\ Suffix(last.ret.value, Len(last.args.raw) - LastEnd(last.args.tokens))
              = RawBetween(last.args.raw, LastEnd(last.args.tokens), Len(last.args.raw))

\* An NN token over "가 가" got its form pushed, a space was stripped from the
\* text, and the spaced tail after the last token came out as it was.
ContentPreservedWitness ==
    /\ last.op = "reconstruct_spaced_text"
    /\ TokensFit(last.args.raw, last.args.tokens)
    /\ Len(last.args.tokens) = 2
    /\ last.args.tokens[1].tag = <<78, 78, 71>>
    /\ last.args.tokens[1].length = 2
    /\ last.args.tokens[1].form = <<44032>>
    /\ last.args.raw = <<44032, 32, 32>>
    /\ last.ret.value # last.args.raw
    /\ last.ret.value = <<44032, 32>>

(***************************************************************************)
(* Blocklists and pretokenized hints made by other instances.              *)
(*                                                                         *)
(* A MorphemeSet and a Pretokenized keep the Arc<LoadedLibrary> of the     *)
(* instance that made them.  Instances built from one loaded library (two  *)
(* builders of one KiwiLibrary, or two Kiwi::init calls served by          *)
(* DEFAULT_LIBRARY) hold clones of one Arc.  Under SpecHandles the         *)
(* instance called is `kiwi`; the makers are that instance, a second       *)
(* instance on its library and an instance on another library.             *)
(***************************************************************************)
MaxHandleOps == 1

ThisKiwi == [inner |-> Kiwi_new.inner, handle |-> "kiwi"]
SameLibraryKiwi == [inner |-> Kiwi_new.inner, handle |-> "kiwi_2"]
OtherLibraryKiwi == [inner |-> "library_2", handle |-> "kiwi_3"]

Makers == {ThisKiwi, SameLibraryKiwi, OtherLibraryKiwi}

\* Kiwi::new_morphset: kiwi_new_morphset(self.handle) and a clone of self.inner.
new_morphset(maker) ==
    Let(require_optional_api("kiwi_new_morphset"), LAMBDA new :
        IF ~new.ok THEN new
        ELSE Ok([inner |-> maker.inner, handle |-> <<"morphset", maker.handle>>]))

\* The blocklist or the hints given to a call: none, or made by the maker.
BlocklistOf(from) == IF from.some THEN Some(new_morphset(from.value).value) ELSE None
PretokenizedOf(from) == IF from.some THEN Some(new_pretokenized(from.value).value) ELSE None

MakerChoices == {None} \cup {Some(maker) : maker \in Makers}

tokenize_with_blocklist_and_pretokenized(k, text, options, blocklist, pretokenized, fault) ==
    Let(analyze_result_with_overrides(k, text, with_top_n(options, 1), blocklist,
                                      pretokenized, fault),
        LAMBDA result :
        IF ~result.ret.ok THEN result
        ELSE Out(result.kiwi, Ok(first_tokens(result.ret.value)), result.calls, FALSE))

InitHandles ==
    /\ native = Engine_new
    /\ api = EntryPoints \cup {"kiwi_new_morphset"}
    /\ kiwi \in {Kiwi_new, add_re_word(Kiwi_new, <<120>>, TagNNP).kiwi}
    /\ last = [op |-> "new", args |-> <<>>, ret |-> Ok("unit"), calls |-> 0,
               cached |-> FALSE, before |-> Kiwi_new]
    /\ ops = MaxHandleOps

AnalyzeWithBlocklistAndPretokenized ==
    \E text \in Texts, options \in OptionsDomain, blocklist \in MakerChoices,
       pretokenized \in MakerChoices, fault \in 0..1 :
        Call("analyze_with_blocklist_and_pretokenized",
             [text |-> text, options |-> options, blocklist |-> blocklist,
              pretokenized |-> pretokenized],
             analyze_with_overrides(kiwi, text, options, BlocklistOf(blocklist),
                                    PretokenizedOf(pretokenized), fault))

TokenizeWithBlocklistAndPretokenized ==
    \E text \in Texts, options \in OptionsDomain, blocklist \in MakerChoices,
       pretokenized \in MakerChoices, fault \in 0..1 :
        Call("tokenize_with_blocklist_and_pretokenized",
             [text |-> text, options |-> options, blocklist |-> blocklist,
              pretokenized |-> pretokenized],
             tokenize_with_blocklist_and_pretokenized(kiwi, text, options,
                                                      BlocklistOf(blocklist),
                                                      PretokenizedOf(pretokenized), fault))

NextHandles ==
    \/ AnalyzeWithBlocklistAndPretokenized
    \/ TokenizeWithBlocklistAndPretokenized

SpecHandles == InitHandles /\ [][NextHandles]_vars

HandleOps ==
    {"analyze_with_blocklist_and_pretokenized", "tokenize_with_blocklist_and_pretokenized"}

\* The call was given an object made by an instance with another handle.
ForeignInstance(from) == from.some /\ from.value.handle # ThisKiwi.handle

\* The call was given an object made on another loaded library.
ForeignLibrary(from) == from.some /\ from.value.inner # ThisKiwi.inner

Rejected(call) ==
    /\ ~call.ret.ok
    /\ call.ret.kind = "InvalidArgument"
    /\ call.calls = 0

\* C30: a call given a blocklist or a Pretokenized made by another instance
\* than the one called returns an invalid-argument error without a native
\* analyze call, and so does a call given a Pretokenized while regex rules
\* are active.
ForeignHandleRejected ==
    last.op \in HandleOps
    => /\ (ForeignInstance(last.args.blocklist) \/ ForeignInstance(last.args.pretokenized))
          => Rejected(last)
       /\ (last.args.pretokenized.some /\ last.before.re_word_rules # <<>>)
          => Rejected(last)

\* What the code rejects: objects made on another loaded library, and hints
\* combined with regex rules.
ForeignLibraryRejected ==
    last.op \in HandleOps
    => /\ (ForeignLibrary(last.args.blocklist) \/ ForeignLibrary(last.args.pretokenized))
          => Rejected(last)
       /\ (last.args.pretokenized.some /\ last.before.re_word_rules # <<>>)
          => Rejected(last)

\* The blocklist of a second instance on the same library went to the native
\* analyzer.
ForeignBlocklistAccepted ==
    /\ last.op \in HandleOps
    /\ last.args.blocklist = Some(SameLibraryKiwi)
    /\ last.ret.ok
    /\ last.calls = 1

====
